---- MODULE Spec2Model ----
(***************************************************************************)
(* BioOpti: the enzyme-kinetics core of src/src/bioopti.                    *)
(*                                                                         *)
(*   reaction_simulator.simulate_reaction_rate   the rate formula           *)
(*   reaction_simulator.optimize_reaction        the optimizer wrapper      *)
(*   reaction_simulator.simulate_from_local_data the lookup wrapper         *)
(*                                                                         *)
(* Numbers are exact rationals <<n, d>> with d > 0, in lowest terms.       *)
(* Python's None is the pair <<0, 0>>, which is no rational.  A call ends   *)
(* in an outcome [kind, val, key]: kind "return" with the returned value,   *)
(* or the name of the exception that left the function.                     *)
(***************************************************************************)
EXTENDS Integers, Sequences, FiniteSets, TLC

VARIABLES
    rate_pc,        \* simulate_reaction_rate: "idle" | "done"
    call,           \* the arguments of the latest simulate_reaction_rate call
    outcome,        \* the outcome of that call
    prev_call,      \* the arguments of the call before it (None fields if none)
    prev_outcome,   \* the outcome of the call before it
    omitted,        \* the optional arguments the latest call left at their defaults
    copy_outcome,   \* the outcome of simulation.simulate_reaction_rate on that call
    opt_pc,         \* optimize_reaction: "idle" | "searching" | "returned" | "raised"
    enzyme_params,  \* the dictionary optimize_reaction was called with
    best,           \* differential_evolution: the best point so far and its value
    evals,          \* differential_evolution: objective evaluations so far
    de_status,      \* differential_evolution: "pending" | "converged" | "not_converged"
    opt_result,     \* what optimize_reaction returned, or the exception raised
    local_pc,       \* simulate_from_local_data: "idle" | "done"
    request,        \* the arguments simulate_from_local_data was called with
    lookup,         \* what get_enzyme_kinetics gave it
    local_result,   \* what simulate_from_local_data returned or raised
    norm_pc,        \* normalize_keys: "idle" | "done"
    param_dict,     \* the dictionary normalize_keys was called with, as its items
    normalized,     \* the dictionary normalize_keys returned
    kin_pc,         \* get_enzyme_kinetics: "idle" | "done"
    data,           \* the entries of the JSON file, in file order
    query,          \* the enzyme_name and organism asked for, and of which module
    kinetics,       \* what get_enzyme_kinetics returned or raised
    sabio_pc,       \* get_kinetic_params_from_sabio: "idle" | "prompting" | "returned"
    interactive,    \* its interactive argument
    response,       \* what requests.get gave: the status and the text
    sabio_branch,   \* "try": lines 44-54 run; "except": lines 57-66 run
    averages,       \* get_avg of each parameter's values in the text
    values,         \* km, vmax, pH_opt, temp_opt as assigned so far
    asking,         \* the parameter _prompt_user_for_value is asking for (0: none)
    prompt_calls,   \* the calls of _prompt_user_for_value so far, by parameter
    asked,          \* the calls of input() so far, by parameter
    typed,          \* what the user typed, typed[i] answering asked[i]
    sabio_result,   \* what get_kinetic_params_from_sabio returned
    media_pc,       \* run: "idle" | "awaiting_token" | "awaiting_search" |
                    \*      "awaiting_fetch" | "returned" | "exited" | "raised"
    media_query,    \* the query run was called with
    http_log,       \* the HTTP requests sent so far, in order
    token_response, \* what the token endpoint answered
    headers,        \* what get_headers returned
    search_response, \* what the search endpoint answered
    search_result,  \* what search_ids returned or raised
    fetch_response, \* what the fetch endpoint answered
    fetch_result,   \* what fetch_strain returned or raised
    console,        \* what was printed, in order
    exit_code,      \* the code of sys.exit, -1 while none
    run_exception,  \* the exception that left run, "" while none
    extract_pc,     \* extract_temperature: "idle" | "done"
    extract_strain, \* the strain extract_temperature was called with
    extracted       \* what extract_temperature returned or raised

rate_vars == <<rate_pc, call, outcome, prev_call, prev_outcome, omitted, copy_outcome>>

opt_vars == <<opt_pc, enzyme_params, best, evals, de_status, opt_result>>

local_vars == <<local_pc, request, lookup, local_result>>

kin_vars == <<norm_pc, param_dict, normalized, kin_pc, data, query, kinetics>>

sabio_vars ==
    <<sabio_pc, interactive, response, sabio_branch, averages, values, asking,
      prompt_calls, asked, typed, sabio_result>>

media_vars ==
    <<media_pc, media_query, http_log, token_response, headers, search_response,
      search_result, fetch_response, fetch_result, console, exit_code,
      run_exception>>

temp_vars == <<extract_pc, extract_strain, extracted>>

vars ==
    <<rate_vars, opt_vars, local_vars, kin_vars, sabio_vars, media_vars, temp_vars>>

----------------------------------------------------------------------------
(* Bounds of the explored inputs.                                          *)

\* substrate_conc ranges over -1, 0, .., MaxSubstrate (mM)
MaxSubstrate == 2
\* inhibitor_conc ranges over None, 0, 1/2, .., MaxInhibitor/2 (mM)
MaxInhibitor == 2
\* pH ranges over 7 .. 7 + MaxDev, temp over 37, 42, .., 37 + 5 * MaxDev
MaxDev == 1
\* objective evaluations differential_evolution makes before it stops
MaxEvals == 3
\* keys of a dictionary passed to normalize_keys
MaxKeys == 3
\* entries of the JSON file get_enzyme_kinetics reads
MaxEntries == 3
\* 'parameter = value' occurrences in the text of a SABIO-RK response
MaxOccurrences == 2
\* non-numeric inputs the user types during one call
MaxInvalid == 2
\* entries under the temperature key of a strain
MaxCandidates == 2

----------------------------------------------------------------------------
(* Exact rational arithmetic, standing for Python's float arithmetic.      *)

RECURSIVE GCD(_, _)
GCD(a, b) == IF b = 0 THEN a ELSE GCD(b, a % b)

Abs(n) == IF n < 0 THEN -n ELSE n

\* the rational n/d (d # 0) in lowest terms with a positive denominator
Rat(n, d) ==
    LET g == GCD(Abs(n), Abs(d))
        s == IF d < 0 THEN -1 ELSE 1
    IN  <<(s * n) \div g, (s * d) \div g>>

Num(n) == <<n, 1>>
Zero == <<0, 1>>
One == <<1, 1>>
None == <<0, 0>>

RAdd(a, b) == Rat(a[1] * b[2] + b[1] * a[2], a[2] * b[2])
RSub(a, b) == Rat(a[1] * b[2] - b[1] * a[2], a[2] * b[2])
RMul(a, b) == Rat(a[1] * b[1], a[2] * b[2])
RNeg(a) == <<-a[1], a[2]>>
\* a / b for b # 0
RDiv(a, b) == Rat(a[1] * b[2], a[2] * b[1])
\* a/b against c/d for a, c >= 0 and b, d > 0, by continued fractions (no
\* product is formed, so none leaves the integer range): -1, 0 or 1
RECURSIVE CmpPos(_, _, _, _)
CmpPos(a, b, c, d) ==
    LET qa == a \div b
        qc == c \div d
        ra == a % b
        rc == c % d
    IN  IF qa # qc THEN (IF qa < qc THEN -1 ELSE 1)
        ELSE IF ra = 0 /\ rc = 0 THEN 0
        ELSE IF ra = 0 THEN -1
        ELSE IF rc = 0 THEN 1
        ELSE CmpPos(d, rc, b, ra)

Cmp(x, y) ==
    IF x[1] < 0 /\ y[1] >= 0 THEN -1
    ELSE IF x[1] >= 0 /\ y[1] < 0 THEN 1
    ELSE IF x[1] >= 0 THEN CmpPos(x[1], x[2], y[1], y[2])
    ELSE CmpPos(-y[1], y[2], -x[1], x[2])

RLt(a, b) == Cmp(a, b) = -1
RLe(a, b) == Cmp(a, b) # 1
IsZero(a) == a[1] = 0

----------------------------------------------------------------------------
(* Outcomes of a call.                                                     *)

Return(v) == [kind |-> "return", val |-> v, key |-> ""]
Raise(e) == [kind |-> e, val |-> None, key |-> ""]
KeyError(k) == [kind |-> "KeyError", val |-> None, key |-> k]
Returned(o) == o.kind = "return"

\* Python's a / b: ZeroDivisionError when b is 0
Divide(a, b) ==
    IF a.kind # "return" THEN a
    ELSE IF b.kind # "return" THEN b
    ELSE IF IsZero(b.val) THEN Raise("ZeroDivisionError")
    ELSE Return(RDiv(a.val, b.val))

\* a + b, where either side may already have raised (the left one first)
Plus(a, b) ==
    IF a.kind # "return" THEN a
    ELSE IF b.kind # "return" THEN b
    ELSE Return(RAdd(a.val, b.val))

\* a * b, where either side may already have raised (the left one first)
Times(a, b) ==
    IF a.kind # "return" THEN a
    ELSE IF b.kind # "return" THEN b
    ELSE Return(RMul(a.val, b.val))

\* math.exp(y) for y <= 0, as the code calls it.  The model keeps what the
\* formula uses of it: exp(0) = 1, strictly increasing, in (0, 1] for y <= 0
\* until it underflows to 0.0 below about -745; the value in between is the
\* rational 1 / (1 - y), not the transcendental one.
Exp(y) ==
    IF y.kind # "return" THEN y
    ELSE IF RLt(y.val, Num(-745)) THEN Return(Zero)
    ELSE IF RLe(y.val, Zero) THEN Return(RDiv(One, RSub(One, y.val)))
    ELSE Return(RAdd(One, y.val))

----------------------------------------------------------------------------
(* reaction_simulator.simulate_reaction_rate                               *)

\* a slip of sign in the inhibition term: km * (1 - inhibitor_conc / ki)
KmEffective_SignSlip(a) ==
    IF a.inhibitor_conc # None /\ a.ki # None
    THEN Times(Return(a.km),
               Plus(Return(One),
                    Divide(Return(RNeg(a.inhibitor_conc)), Return(a.ki))))
    ELSE Return(a.km)

\* km_effective = km, or km * (1 + inhibitor_conc / ki) when both are given
KmEffective(a) ==
    IF a.inhibitor_conc # None /\ a.ki # None
    THEN Times(Return(a.km),
               Plus(Return(One), Divide(Return(a.inhibitor_conc), Return(a.ki))))
    ELSE Return(a.km)

\* the inhibition term left out of the Michaelis-Menten denominator
MichaelisMenten_NoInhibition(a) ==
    Divide(Return(RMul(a.vmax, a.substrate_conc)),
           Plus(Return(a.km), Return(a.substrate_conc)))

\* v = (vmax * substrate_conc) / (km_effective + substrate_conc)
MichaelisMenten(a) ==
    Divide(Return(RMul(a.vmax, a.substrate_conc)),
           Plus(KmEffective(a), Return(a.substrate_conc)))

\* math.exp(-((x - optimal) ** 2) / (2 * sigma ** 2))
Gaussian(x, optimal, sigma) ==
    LET d == RSub(x, optimal)
    IN  Exp(Divide(Return(RNeg(RMul(d, d))),
                   Return(RMul(Num(2), RMul(sigma, sigma)))))

\* the temperature penalty centred on the pH optimum
temp_penalty_WrongOptimum(a) == Gaussian(a.temp, a.optimal_pH, a.temp_sigma)

temp_penalty(a) == Gaussian(a.temp, a.optimal_temp, a.temp_sigma)

pH_penalty(a) == Gaussian(a.pH, a.optimal_pH, a.pH_sigma)

\* the whole function: v, then the two penalties, then v *= temp * pH
simulate_reaction_rate(a) ==
    LET v == MichaelisMenten(a)
    IN  IF v.kind # "return" THEN v
        ELSE Times(v, Times(temp_penalty(a), pH_penalty(a)))

----------------------------------------------------------------------------
(* simulation.simulate_reaction_rate, the other copy of the formula, on    *)
(* its own argument names ph, optimal_ph and ph_sigma.                     *)

\* lines 27-30: effective_km
simulation_effective_km(a) ==
    IF a.inhibitor_conc # None /\ a.ki # None
    THEN Times(Return(a.km),
               Plus(Return(One), Divide(Return(a.inhibitor_conc), Return(a.ki))))
    ELSE Return(a.km)

\* line 32: base_rate, computed and never used
simulation_base_rate(a) ==
    Divide(Return(RMul(a.vmax, a.substrate_conc)),
           Plus(simulation_effective_km(a), Return(a.substrate_conc)))

\* line 35
simulation_temp_penalty(a) == Gaussian(a.temp, a.optimal_temp, a.temp_sigma)

\* a pH penalty that ignores the tolerance passed and uses 1.0
simulation_ph_penalty_FixedSigma(a) == Gaussian(a.ph, a.optimal_ph, One)

\* line 38
simulation_ph_penalty(a) == Gaussian(a.ph, a.optimal_ph, a.ph_sigma)

\* lines 41-46: km_effective and v, the same expressions once more
simulation_v(a) ==
    Divide(Return(RMul(a.vmax, a.substrate_conc)),
           Plus(simulation_effective_km(a), Return(a.substrate_conc)))

\* lines 27-51 in the order they run: the first statement that raises ends
\* the call
simulation_simulate_reaction_rate(a) ==
    IF ~Returned(simulation_base_rate(a)) THEN simulation_base_rate(a)
    ELSE IF ~Returned(simulation_temp_penalty(a)) THEN simulation_temp_penalty(a)
    ELSE IF ~Returned(simulation_ph_penalty(a)) THEN simulation_ph_penalty(a)
    ELSE IF ~Returned(simulation_v(a)) THEN simulation_v(a)
    ELSE Times(simulation_v(a),
               Times(simulation_temp_penalty(a), simulation_ph_penalty(a)))

----------------------------------------------------------------------------
(* Arguments and defaults.  A call supplies the five required arguments   *)
(* and some of the six optional ones; the signature's defaults fill in    *)
(* the rest.                                                               *)

\* reaction_simulator.py lines 68-73
signature_defaults ==
    [optimal_pH |-> Num(7), optimal_temp |-> Num(37), pH_sigma |-> One,
     temp_sigma |-> Num(5), inhibitor_conc |-> None, ki |-> None]

\* simulation.py lines 10-15
simulation_signature_defaults ==
    [optimal_ph |-> Num(7), optimal_temp |-> Num(37), ph_sigma |-> One,
     temp_sigma |-> Num(5), inhibitor_conc |-> None, ki |-> None]

\* the arguments as the function body sees them: the supplied ones, and the
\* defaults for the others
BindArguments(supplied, defaults) ==
    [k \in DOMAIN supplied \cup DOMAIN defaults |->
        IF k \in DOMAIN supplied THEN supplied[k] ELSE defaults[k]]

\* what a call passes: its arguments without the omitted ones
Supplied(a, om) == [k \in DOMAIN a \ om |-> a[k]]

\* the same arguments under simulation.py's names
SimulationName(k) ==
    CASE k = "pH" -> "ph"
      [] k = "optimal_pH" -> "optimal_ph"
      [] k = "pH_sigma" -> "ph_sigma"
      [] OTHER -> k

SimulationArguments(supplied) ==
    [k \in {SimulationName(n) : n \in DOMAIN supplied} |->
        supplied[CHOOSE n \in DOMAIN supplied : SimulationName(n) = k]]

\* the sets of optional arguments a call may leave out
Omissions ==
    {{}, {"pH_sigma", "temp_sigma"}, {"inhibitor_conc", "ki"},
     {"optimal_pH", "optimal_temp"}, DOMAIN signature_defaults}

----------------------------------------------------------------------------
(* The calls explored.                                                     *)

Substrates == {Num(k) : k \in -1..MaxSubstrate}
Vmaxes == {Num(100), Num(-1)}
Kms == {Zero, Rat(1, 2), One}
PHs == {Num(7 + k) : k \in 0..MaxDev}
Temps == {Num(37 + 5 * k) : k \in 0..MaxDev}
PHSigmas == {Num(-1), Zero, One}
TempSigmas == {Zero, Rat(1, 10), Num(5)}
InhibitorConcs == {None} \cup {Rat(k, 2) : k \in 0..MaxInhibitor}
Kis == {None, Zero, Rat(1, 10), One}

\* optimal_pH = 7.0 and optimal_temp = 37.0, the defaults of the signature
Calls ==
    [substrate_conc : Substrates, vmax : Vmaxes, km : Kms,
     pH : PHs, temp : Temps, optimal_pH : {Num(7)}, optimal_temp : {Num(37)},
     pH_sigma : PHSigmas, temp_sigma : TempSigmas,
     inhibitor_conc : InhibitorConcs, ki : Kis]

NoCall ==
    [substrate_conc |-> None, vmax |-> None, km |-> None, pH |-> None,
     temp |-> None, optimal_pH |-> None, optimal_temp |-> None,
     pH_sigma |-> None, temp_sigma |-> None, inhibitor_conc |-> None,
     ki |-> None]

RateInit ==
    /\ rate_pc = "idle"
    /\ call = NoCall
    /\ outcome = Raise("none")
    /\ prev_call = NoCall
    /\ prev_outcome = Raise("none")
    /\ omitted = {}
    /\ copy_outcome = Raise("none")

\* a caller invokes simulate_reaction_rate with arguments of its choice
Simulate ==
    /\ rate_pc = "idle"
    /\ \E a \in Calls, om \in Omissions :
        LET bound == BindArguments(Supplied(a, om), signature_defaults)
        IN  /\ rate_pc' = "done"
            /\ omitted' = om
            /\ call' = bound
            /\ outcome' = simulate_reaction_rate(bound)
            /\ prev_call' = NoCall
            /\ prev_outcome' = Raise("none")
            /\ copy_outcome' = Raise("none")
    /\ UNCHANGED <<opt_vars, local_vars, kin_vars, sabio_vars, media_vars, temp_vars>>

\* the caller invokes it again, changing inhibitor_conc alone (as the
\* with/without-inhibitor tests do)
SimulateAgain ==
    /\ rate_pc = "done"
    /\ prev_call = NoCall
    /\ \E i \in InhibitorConcs :
        /\ i # call.inhibitor_conc
        /\ call' = [call EXCEPT !.inhibitor_conc = i]
        /\ outcome' = simulate_reaction_rate([call EXCEPT !.inhibitor_conc = i])
        /\ prev_call' = call
        /\ prev_outcome' = outcome
        /\ omitted' = omitted \ {"inhibitor_conc"}
        /\ copy_outcome' = Raise("none")
        /\ rate_pc' = "done"
    /\ UNCHANGED <<opt_vars, local_vars, kin_vars, sabio_vars, media_vars, temp_vars>>

\* the same call goes to simulation.simulate_reaction_rate, its pH-related
\* arguments under that module's names
SimulateCopy ==
    /\ rate_pc = "done"
    /\ copy_outcome = Raise("none")
    /\ copy_outcome' =
            simulation_simulate_reaction_rate(
                BindArguments(SimulationArguments(Supplied(call, omitted)),
                              simulation_signature_defaults))
    /\ UNCHANGED <<rate_pc, call, outcome, prev_call, prev_outcome, omitted,
                   opt_vars, local_vars, kin_vars, sabio_vars, media_vars, temp_vars>>

----------------------------------------------------------------------------
(* reaction_simulator.optimize_reaction                                    *)

\* a Python dictionary is a function on its keys
Get(d, k, default) == IF k \in DOMAIN d THEN d[k] ELSE default

\* the search box, lines 158-162: (lower, upper) per axis
bounds ==
    << <<Rat(1, 100), Num(10)>>, <<Num(4), Num(9)>>, <<Num(20), Num(60)>> >>

\* the keys the objective reads with enzyme_params[...], in the order read
RequiredKeys == <<"vmax", "km", "optimal_pH", "optimal_temp">>

\* the first key of ks that d lacks, or "" when it has them all
RECURSIVE FirstMissing(_, _)
FirstMissing(d, ks) ==
    IF ks = <<>> THEN ""
    ELSE IF Head(ks) \notin DOMAIN d THEN Head(ks)
    ELSE FirstMissing(d, Tail(ks))

\* the arguments objective(x) passes to simulate_reaction_rate, lines 203-215
ObjectiveCall(e, x) ==
    [substrate_conc |-> x[1], vmax |-> e["vmax"], km |-> e["km"],
     pH |-> x[2], temp |-> x[3],
     optimal_pH |-> e["optimal_pH"], optimal_temp |-> e["optimal_temp"],
     pH_sigma |-> Get(e, "pH_sigma", One),
     temp_sigma |-> Get(e, "temp_sigma", Num(5)),
     inhibitor_conc |-> Get(e, "inhibitor_conc", None),
     ki |-> Get(e, "ki", None)]

\* the objective with its sign lost: the rate instead of its negative
objective_NotNegated(e, x) ==
    IF FirstMissing(e, RequiredKeys) # ""
    THEN KeyError(FirstMissing(e, RequiredKeys))
    ELSE simulate_reaction_rate(ObjectiveCall(e, x))

\* objective(x) = -simulate_reaction_rate(...), or the exception it lets out
objective(e, x) ==
    IF FirstMissing(e, RequiredKeys) # ""
    THEN KeyError(FirstMissing(e, RequiredKeys))
    ELSE LET r == simulate_reaction_rate(ObjectiveCall(e, x))
         IN  IF Returned(r) THEN Return(RNeg(r.val)) ELSE r

\* scipy's differential_evolution evaluates the objective only at points of
\* the box; the points explored are its corners and the optimum 1, 7, 37
AxisPoints(i) ==
    {bounds[i][1], bounds[i][2]}
        \cup (IF i = 1 THEN {One} ELSE IF i = 2 THEN {Num(7)} ELSE {Num(37)})

Candidates == {<<s, p, t>> : s \in AxisPoints(1), p \in AxisPoints(2), t \in AxisPoints(3)}

\* the enzyme dictionaries explored: the smoke test's, and variations of it
KineticsParts ==
    {("vmax" :> Num(100)) @@ ("km" :> Rat(1, 10)),
     ("vmax" :> Num(-1)) @@ ("km" :> Rat(1, 10)),
     ("vmax" :> Num(100))}
OptimumPart == ("optimal_pH" :> Num(7)) @@ ("optimal_temp" :> Num(37))
SigmaParts ==
    {<<>>,
     ("ph_sigma" :> Rat(1, 2)) @@ ("temp_sigma" :> Num(5)),
     ("pH_sigma" :> Rat(1, 2)) @@ ("temp_sigma" :> Num(5)),
     ("pH_sigma" :> Rat(1, 2))}
InhibitionParts ==
    {<<>>,
     ("inhibitor_conc" :> Rat(1, 2)) @@ ("ki" :> Rat(1, 10)),
     ("inhibitor_conc" :> Rat(1, 2)) @@ ("ki" :> Zero)}

Enzymes ==
    {k @@ OptimumPart @@ s @@ i :
        k \in KineticsParts, s \in SigmaParts, i \in InhibitionParts}

\* the enzyme of test_optimize_reaction_smoke
SmokeTestEnzyme ==
    ("vmax" :> Num(100)) @@ ("km" :> Rat(1, 10)) @@ OptimumPart
        @@ ("ph_sigma" :> Rat(1, 2)) @@ ("temp_sigma" :> Num(5))

NoBest == [x |-> <<>>, fun |-> None]
NoResult == [kind |-> "none", best_conditions |-> <<>>, max_rate |-> None]

OptInit ==
    /\ opt_pc = "idle"
    /\ enzyme_params = <<>>
    /\ best = NoBest
    /\ evals = 0
    /\ de_status = "pending"
    /\ opt_result = NoResult

\* optimize_reaction(enzyme_params) is called; differential_evolution starts
Optimize ==
    /\ opt_pc = "idle"
    /\ \E e \in Enzymes : enzyme_params' = e
    /\ opt_pc' = "searching"
    /\ UNCHANGED <<best, evals, de_status, opt_result, rate_vars, local_vars, kin_vars,
                 sabio_vars, media_vars, temp_vars>>

\* differential_evolution evaluates the objective at one more point of the
\* box and keeps the point if it is the best so far; an exception of the
\* objective leaves differential_evolution and optimize_reaction
Evaluate ==
    /\ opt_pc = "searching"
    /\ evals < MaxEvals
    /\ \E x \in Candidates :
        LET f == objective(enzyme_params, x)
            called == FirstMissing(enzyme_params, RequiredKeys) = ""
        IN  /\ evals' = evals + 1
            /\ IF called
               THEN /\ call' = ObjectiveCall(enzyme_params, x)
                    /\ outcome' = simulate_reaction_rate(ObjectiveCall(enzyme_params, x))
                    /\ rate_pc' = "done"
               ELSE UNCHANGED <<call, outcome, rate_pc>>
            /\ IF Returned(f)
               THEN /\ best' = IF best = NoBest \/ RLt(f.val, best.fun)
                               THEN [x |-> x, fun |-> f.val]
                               ELSE best
                    /\ UNCHANGED <<opt_pc, opt_result>>
               ELSE /\ opt_pc' = "raised"
                    /\ opt_result' = [NoResult EXCEPT !.kind = f.kind]
                    /\ UNCHANGED best
    /\ UNCHANGED <<enzyme_params, de_status, prev_call, prev_outcome, omitted,
                   copy_outcome, local_vars,
                   kin_vars, sabio_vars, media_vars, temp_vars>>

\* differential_evolution stops, converged or not, and optimize_reaction
\* returns the dictionary built from result.x and result.fun, lines 217-222
Finish ==
    /\ opt_pc = "searching"
    /\ best # NoBest
    /\ \E s \in {"converged", "not_converged"} : de_status' = s
    /\ opt_pc' = "returned"
    /\ opt_result' = [kind |-> "return", best_conditions |-> best.x,
                      max_rate |-> RNeg(best.fun)]
    /\ UNCHANGED <<enzyme_params, best, evals, rate_vars, local_vars, kin_vars,
                   sabio_vars, media_vars, temp_vars>>

----------------------------------------------------------------------------
(* reaction_simulator.simulate_from_local_data                             *)

\* simulate_from_local_data's own arguments; None is an override left out
Requests ==
    [substrate_conc : {One, Num(2)}, pH : {Num(7), Num(8)}, temp : {Num(37)},
     inhibitor_conc : {None, Rat(1, 2)}, pH_sigma : {None, Rat(1, 2)},
     temp_sigma : {None, Num(10)}, ki : {None, Zero, One}]

\* what get_enzyme_kinetics can hand back: the (normalized) parameters of a
\* file entry, among them the mocks of the two test files, or ValueError
RecordKinetics ==
    {("vmax" :> Num(90)) @@ ("km" :> Rat(2, 5)) @@ OptimumPart,
     ("vmax" :> Num(90)) @@ OptimumPart}
RecordSigmas ==
    {<<>>,
     ("ph_sigma" :> One) @@ ("temp_sigma" :> Num(5)),
     ("pH_sigma" :> Num(2)) @@ ("temp_sigma" :> Num(5)),
     ("pH_sigma" :> Num(2))}
RecordKis == {<<>>, ("ki" :> Rat(1, 10))}

Found(d) == [kind |-> "return", params |-> d]
NotFound == [kind |-> "ValueError", params |-> <<>>]

Lookups ==
    {Found(k @@ s @@ i) : k \in RecordKinetics, s \in RecordSigmas, i \in RecordKis}
        \cup {NotFound}

\* the mock of test_simulate_from_local_data
TestMockParams ==
    ("vmax" :> Num(90)) @@ ("km" :> Rat(2, 5)) @@ OptimumPart
        @@ ("ph_sigma" :> One) @@ ("temp_sigma" :> Num(5))

\* the keys read with local_params[...] while the call's arguments are built,
\* in the order read: the sigmas only where no override is passed
LocalKeys(req) ==
    RequiredKeys
        \o (IF req.pH_sigma = None THEN <<"pH_sigma">> ELSE <<>>)
        \o (IF req.temp_sigma = None THEN <<"temp_sigma">> ELSE <<>>)

\* the arguments passed to simulate_reaction_rate, lines 137-152
LocalCall(req, p) ==
    [substrate_conc |-> req.substrate_conc, vmax |-> p["vmax"], km |-> p["km"],
     pH |-> req.pH, temp |-> req.temp,
     optimal_pH |-> p["optimal_pH"], optimal_temp |-> p["optimal_temp"],
     pH_sigma |-> IF req.pH_sigma # None THEN req.pH_sigma ELSE p["pH_sigma"],
     temp_sigma |-> IF req.temp_sigma # None THEN req.temp_sigma
                    ELSE p["temp_sigma"],
     inhibitor_conc |-> req.inhibitor_conc,
     ki |-> IF req.ki # None THEN req.ki ELSE Get(p, "ki", None)]

NoLocalResult == [kind |-> "none", v |-> None, params |-> <<>>, key |-> ""]

\* (v, local_params), or the exception that leaves the function
simulate_from_local_data(req, found) ==
    IF found.kind # "return"
    THEN [NoLocalResult EXCEPT !.kind = found.kind]
    ELSE IF FirstMissing(found.params, LocalKeys(req)) # ""
    THEN [NoLocalResult EXCEPT !.kind = "KeyError",
                               !.key = FirstMissing(found.params, LocalKeys(req))]
    ELSE LET r == simulate_reaction_rate(LocalCall(req, found.params))
         IN  IF Returned(r)
             THEN [kind |-> "return", v |-> r.val, params |-> found.params,
                   key |-> ""]
             ELSE [NoLocalResult EXCEPT !.kind = r.kind]

NoRequest ==
    [substrate_conc |-> None, pH |-> None, temp |-> None,
     inhibitor_conc |-> None, pH_sigma |-> None, temp_sigma |-> None,
     ki |-> None]

LocalInit ==
    /\ local_pc = "idle"
    /\ request = NoRequest
    /\ lookup = NotFound
    /\ local_result = NoLocalResult

\* one call of simulate_from_local_data: the lookup, then the rate
SimulateFromLocalData ==
    /\ local_pc = "idle"
    /\ \E req \in Requests, found \in Lookups :
        LET res == simulate_from_local_data(req, found)
            called == /\ found.kind = "return"
                      /\ FirstMissing(found.params, LocalKeys(req)) = ""
        IN  /\ request' = req
            /\ lookup' = found
            /\ local_result' = res
            /\ IF called
               THEN /\ call' = LocalCall(req, found.params)
                    /\ outcome' = simulate_reaction_rate(LocalCall(req, found.params))
                    /\ rate_pc' = "done"
               ELSE UNCHANGED <<call, outcome, rate_pc>>
    /\ local_pc' = "done"
    /\ UNCHANGED <<prev_call, prev_outcome, omitted, copy_outcome, opt_vars,
                   kin_vars, sabio_vars,
                   media_vars, temp_vars>>

----------------------------------------------------------------------------
(* reaction_simulator.normalize_keys                                       *)

\* key_mapping, lines 19-27
key_mapping ==
    ("km_mM" :> "km") @@ ("vmax_umol_per_min" :> "vmax")
        @@ ("optimal_pH" :> "optimal_pH") @@ ("optimal_temp_C" :> "optimal_temp")
        @@ ("pH_sigma" :> "pH_sigma") @@ ("temp_sigma_C" :> "temp_sigma")
        @@ ("ki_mM" :> "ki")

\* the key a key is stored under, lines 30-33
NormalizedKey(k) == IF k \in DOMAIN key_mapping THEN key_mapping[k] ELSE k

\* a loop that keeps the value already stored under a key
RECURSIVE normalize_loop_FirstWins(_, _)
normalize_loop_FirstWins(items, acc) ==
    IF items = <<>> THEN acc
    ELSE normalize_loop_FirstWins(Tail(items),
            acc @@ (NormalizedKey(Head(items)[1]) :> Head(items)[2]))

\* the loop of lines 29-33 over param_dict.items(), in the dictionary's
\* order: normalized[...] = v replaces what an earlier item stored there
RECURSIVE normalize_loop(_, _)
normalize_loop(items, acc) ==
    IF items = <<>> THEN acc
    ELSE normalize_loop(Tail(items),
            (NormalizedKey(Head(items)[1]) :> Head(items)[2]) @@ acc)

\* a dictionary is passed as its items <<key, value>>, in insertion order
normalize_keys(items) == normalize_loop(items, <<>>)

\* the keys explored, each with a value of its own
ParamValue ==
    ("km_mM" :> Rat(1, 2)) @@ ("km" :> Rat(3, 10))
        @@ ("vmax_umol_per_min" :> Num(100)) @@ ("optimal_pH" :> Num(7))
        @@ ("optimal_temp_C" :> Num(37)) @@ ("ph_sigma" :> One)
        @@ ("temp_sigma_C" :> Num(5)) @@ ("extra_param" :> Num(42))
        @@ ("ki_mM" :> Rat(1, 10))

ExploredKeys == {"km_mM", "km", "vmax_umol_per_min", "ki_mM", "extra_param"}

\* the sequences without repetition of at most n elements of S
RECURSIVE Arrangements(_, _)
Arrangements(S, n) ==
    IF n = 0 THEN {<<>>}
    ELSE LET shorter == Arrangements(S, n - 1)
         IN  shorter \cup
             {Append(q, x) : q \in {r \in shorter : Len(r) = n - 1},
                             x \in S}

Distinct(q) == \A i, j \in 1..Len(q) : q[i] = q[j] => i = j

ItemsOf(ks) == [i \in 1..Len(ks) |-> <<ks[i], ParamValue[ks[i]]>>]

\* the input of test_normalize_keys
TestInputData ==
    ItemsOf(<<"km_mM", "vmax_umol_per_min", "optimal_pH", "optimal_temp_C",
              "ph_sigma", "temp_sigma_C", "extra_param">>)

ParamDicts ==
    {ItemsOf(ks) : ks \in {q \in Arrangements(ExploredKeys, MaxKeys) : Distinct(q)}}
        \cup {TestInputData}

\* a caller passes a dictionary to normalize_keys
NormalizeKeys ==
    /\ norm_pc = "idle"
    /\ \E d \in ParamDicts :
        /\ param_dict' = d
        /\ normalized' = normalize_keys(d)
    /\ norm_pc' = "done"
    /\ UNCHANGED <<kin_pc, data, query, kinetics, rate_vars, opt_vars, local_vars,
                 sabio_vars, media_vars, temp_vars>>

----------------------------------------------------------------------------
(* get_enzyme_kinetics, of reaction_simulator and of enzyme_kinetics.      *)
(* A file key and a name are strings: sequences of characters.             *)

UpperCase == <<"A", "B", "C", "D", "E", "F", "G", "H", "I", "J", "K", "L", "M",
               "N", "O", "P", "Q", "R", "S", "T", "U", "V", "W", "X", "Y", "Z">>
LowerCase == <<"a", "b", "c", "d", "e", "f", "g", "h", "i", "j", "k", "l", "m",
               "n", "o", "p", "q", "r", "s", "t", "u", "v", "w", "x", "y", "z">>

\* str.str_lower()
str_lower(s) ==
    [i \in 1..Len(s) |->
        IF \E j \in 1..26 : UpperCase[j] = s[i]
        THEN LowerCase[CHOOSE j \in 1..26 : UpperCase[j] = s[i]]
        ELSE s[i]]

\* the positions at which " (" occurs in s
SeparatorAt(s) == {i \in 1..(Len(s) - 1) : s[i] = " " /\ s[i + 1] = "("}

\* s.rstrip(")")
RECURSIVE rstrip(_)
rstrip(s) ==
    IF s # <<>> /\ s[Len(s)] = ")" THEN rstrip(SubSeq(s, 1, Len(s) - 1)) ELSE s

\* key.rsplit(" (", 1): the key cut at its last " (", or the key alone
rsplit(key) ==
    IF SeparatorAt(key) = {} THEN <<key>>
    ELSE LET i == CHOOSE j \in SeparatorAt(key) : \A k \in SeparatorAt(key) : k <= j
         IN  <<SubSeq(key, 1, i - 1), SubSeq(key, i + 2, Len(key))>>

\* organism=None
NoOrganism == <<"None">>

\* the condition of line 54, for a key that splits in two
IsMatch(key, enzyme_name, organism) ==
    LET enzyme == rsplit(key)[1]
        org == rstrip(rsplit(key)[2])
    IN  /\ str_lower(enzyme) = str_lower(enzyme_name)
        /\ (organism = NoOrganism \/ str_lower(organism) = str_lower(org))

KineticsFound(d) == [kind |-> "return", params |-> d, msg |-> ""]
KineticsError(e, m) == [kind |-> e, params |-> <<>>, msg |-> m]

\* what an entry's parameters become: reaction_simulator normalizes them
\* (line 55), enzyme_kinetics appends them as they are (line 29)
Matched(module, params) ==
    IF module = "reaction_simulator" THEN normalize_keys(params)
    ELSE [k \in {params[i][1] : i \in 1..Len(params)} |->
            LET i == CHOOSE j \in 1..Len(params) : params[j][1] = k
            IN  params[i][2]]

\* the loop over data.items(), then the two exits, lines 51-60: unpacking
\* enzyme, org = key.rsplit(" (", 1) raises ValueError for a key without " ("
RECURSIVE match_loop(_, _, _, _, _)
match_loop(entries, enzyme_name, organism, module, matches) ==
    IF entries = <<>>
    THEN IF matches = <<>>
         THEN KineticsError("ValueError", "No match found")
         ELSE KineticsFound(matches[1])
    ELSE IF Len(rsplit(Head(entries).key)) # 2
    THEN KineticsError("ValueError", "not enough values to unpack")
    ELSE match_loop(Tail(entries), enzyme_name, organism, module,
            IF IsMatch(Head(entries).key, enzyme_name, organism)
            THEN Append(matches, Matched(module, Head(entries).params))
            ELSE matches)

get_enzyme_kinetics(entries, q) ==
    match_loop(entries, q.enzyme_name, q.organism, q.module, <<>>)

\* the file keys explored: "ldh (Hs)", "LDH (hs)", "ldh (Sc)", "hk (Sc)",
\* "ldh (Hs))" and a key of another shape, "note"
FileKeys ==
    {<<"l", "d", "h", " ", "(", "H", "s", ")">>,
     <<"L", "D", "H", " ", "(", "h", "s", ")">>,
     <<"l", "d", "h", " ", "(", "S", "c", ")">>,
     <<"h", "k", " ", "(", "S", "c", ")">>,
     <<"n", "o", "t", "e">>}

\* the entry at position i carries km_mM = i, which tells the entries apart
EntriesOf(ks) ==
    [i \in 1..Len(ks) |->
        [key |-> ks[i],
         params |-> << <<"km_mM", Num(i)>>, <<"vmax", Num(100)>> >>]]

\* a JSON object has no key twice
Files == {EntriesOf(ks) : ks \in {q \in Arrangements(FileKeys, MaxEntries) : Distinct(q)}}

Queries ==
    [enzyme_name : {<<"l", "d", "h">>, <<"L", "d", "h">>, <<"h", "k">>},
     organism : {NoOrganism, <<"h", "s">>, <<"S", "c">>},
     module : {"reaction_simulator", "enzyme_kinetics"}]

NoQuery == [enzyme_name |-> <<>>, organism |-> NoOrganism, module |-> ""]

KinInit ==
    /\ norm_pc = "idle"
    /\ param_dict = <<>>
    /\ normalized = <<>>
    /\ kin_pc = "idle"
    /\ data = <<>>
    /\ query = NoQuery
    /\ kinetics = KineticsError("none", "")

\* one call of get_enzyme_kinetics on a file
GetEnzymeKinetics ==
    /\ kin_pc = "idle"
    /\ \E f \in Files, q \in Queries :
        /\ data' = f
        /\ query' = q
        /\ kinetics' = get_enzyme_kinetics(f, q)
    /\ kin_pc' = "done"
    /\ UNCHANGED <<norm_pc, param_dict, normalized, rate_vars, opt_vars, local_vars,
                 sabio_vars, media_vars, temp_vars>>

----------------------------------------------------------------------------
(* sabio: float(), the extraction from the response text, the prompt.      *)

DigitChars == <<"0", "1", "2", "3", "4", "5", "6", "7", "8", "9">>
IsDigit(c) == \E i \in 1..10 : DigitChars[i] = c
DigitValue(c) == (CHOOSE i \in 1..10 : DigitChars[i] = c) - 1

RECURSIVE DigitsValue(_)
DigitsValue(s) ==
    IF s = <<>> THEN 0
    ELSE 10 * DigitsValue(SubSeq(s, 1, Len(s) - 1)) + DigitValue(s[Len(s)])

RECURSIVE Pow10(_)
Pow10(n) == IF n = 0 THEN 1 ELSE 10 * Pow10(n - 1)

\* a float() that takes digits alone
float_DigitsOnly(s) ==
    IF s = <<>> \/ \E i \in 1..Len(s) : ~IsDigit(s[i])
    THEN Raise("ValueError")
    ELSE Return(Num(DigitsValue(s)))

\* float(s) for a string of digits, dots and letters: a number when s is
\* digits with at most one dot and at least one digit, ValueError otherwise
float(s) ==
    LET dots == {i \in 1..Len(s) : s[i] = "."}
        digits == {i \in 1..Len(s) : IsDigit(s[i])}
        dot == IF dots = {} THEN Len(s) + 1 ELSE CHOOSE i \in dots : TRUE
        decimals == IF dots = {} THEN 0 ELSE Len(s) - dot
    IN  IF Cardinality(dots) > 1 \/ digits = {}
           \/ Cardinality(dots) + Cardinality(digits) # Len(s)
        THEN Raise("ValueError")
        ELSE Return(Rat(DigitsValue(SubSeq(s, 1, dot - 1)) * Pow10(decimals)
                            + DigitsValue(SubSeq(s, dot + 1, Len(s))),
                        Pow10(decimals)))

\* the four parameters, in the order lines 44-47 and 60-63 assign them
SabioParams == <<"km", "vmax", "optimal_pH", "optimal_temp">>

\* the response text is the sequence of its 'parameter = token' occurrences,
\* token being what ([\d.]+) captures; re.findall gives a parameter's tokens
\* in text order
RECURSIVE findall(_, _)
findall(param, text) ==
    IF text = <<>> THEN <<>>
    ELSE (IF Head(text).param = param THEN <<Head(text).token>> ELSE <<>>)
            \o findall(param, Tail(text))

\* [float(v) for v in ...]: the list, or the ValueError of its first bad token
RECURSIVE floats(_)
floats(tokens) ==
    IF tokens = <<>> THEN [kind |-> "return", list |-> <<>>]
    ELSE LET v == float(Head(tokens))
             rest == floats(Tail(tokens))
         IN  IF ~Returned(v) THEN [kind |-> v.kind, list |-> <<>>]
             ELSE IF rest.kind # "return" THEN rest
             ELSE [kind |-> "return", list |-> <<v.val>> \o rest.list]

RECURSIVE sum(_)
sum(vs) == IF vs = <<>> THEN Zero ELSE RAdd(Head(vs), sum(Tail(vs)))

\* get_avg, lines 40-41
get_avg(vs) == IF vs = <<>> THEN None ELSE RDiv(sum(vs), Num(Len(vs)))

\* the truth value of a float or None: None and 0.0 are false
Truthy(x) == x[1] # 0

NoValues == [p \in {"km", "vmax", "optimal_pH", "optimal_temp"} |-> None]

\* lines 30-38: the request, then the four lists.  "try" with the averages
\* when nothing raised, "except" when the request failed or a token is no
\* float
Extract(resp) ==
    IF resp.status # "ok" THEN [branch |-> "except", avg |-> NoValues]
    ELSE IF \E i \in 1..4 : floats(findall(SabioParams[i], resp.text)).kind # "return"
    THEN [branch |-> "except", avg |-> NoValues]
    ELSE [branch |-> "try",
          avg |-> [p \in DOMAIN NoValues |-> get_avg(floats(findall(p, resp.text)).list)]]

\* an except branch that does not prompt for Vmax
Prompts_VmaxSkipped(branch, avg, inter, i) ==
    IF branch = "try" THEN ~Truthy(avg[SabioParams[i]]) /\ inter
    ELSE inter /\ i # 2

\* does the assignment of parameter i call _prompt_user_for_value?
\* try: get_avg(...) or (prompt if interactive else None); except: always
\* (the except branch assigns only when interactive)
Prompts(branch, avg, inter, i) ==
    IF branch = "try" THEN ~Truthy(avg[SabioParams[i]]) /\ inter
    ELSE inter

\* the first assignment from i on that prompts, 5 when none does
RECURSIVE NextPrompt(_, _, _, _)
NextPrompt(branch, avg, inter, i) ==
    IF i > 4 THEN 5
    ELSE IF Prompts(branch, avg, inter, i) THEN i
    ELSE NextPrompt(branch, avg, inter, i + 1)

\* the assignments i .. j-1, none of which prompts: x or None
Assigned(vals, avg, i, j) ==
    [p \in DOMAIN vals |->
        IF \E k \in i..(j - 1) : SabioParams[k] = p
        THEN (IF Truthy(avg[p]) THEN avg[p] ELSE None)
        ELSE vals[p]]

\* the text occurrences explored: a parameter and a token "0", "0.5" or "."
Tokens == {<<"0">>, <<"0", ".", "5">>, <<".">>}
Occurrences == [param : {"km", "vmax", "optimal_pH", "optimal_temp"}, token : Tokens]

RECURSIVE Texts(_)
Texts(n) ==
    IF n = 0 THEN {<<>>}
    ELSE Texts(n - 1) \cup
         {Append(t, o) : t \in {u \in Texts(n - 1) : Len(u) = n - 1}, o \in Occurrences}

Responses ==
    [status : {"ok"}, text : Texts(MaxOccurrences)]
        \cup [status : {"http_error", "exception"}, text : {<<>>}]

\* what the user types at a prompt: "oops", "1" or "2.5"
UserInputs == {<<"o", "o", "p", "s">>, <<"1">>, <<"2", ".", "5">>}

NoResponse == [status |-> "none", text |-> <<>>]
NoSabioResult == [kind |-> "none", dict |-> NoValues]

SabioInit ==
    /\ sabio_pc = "idle"
    /\ interactive = FALSE
    /\ response = NoResponse
    /\ sabio_branch = "none"
    /\ averages = NoValues
    /\ values = NoValues
    /\ asking = 0
    /\ prompt_calls = <<>>
    /\ asked = <<>>
    /\ typed = <<>>
    /\ sabio_result = NoSabioResult

\* the code from the assignment of parameter i up to the next input() call,
\* or up to the return
RunFrom(branch, avg, inter, vals, i) ==
    LET j == NextPrompt(branch, avg, inter, i)
        filled == IF branch = "try" THEN Assigned(vals, avg, i, j) ELSE vals
    IN  /\ values' = filled
        /\ IF j <= 4
           THEN /\ sabio_pc' = "prompting"
                /\ asking' = j
                /\ prompt_calls' = Append(prompt_calls, SabioParams[j])
                /\ asked' = Append(asked, SabioParams[j])
                /\ sabio_result' = sabio_result
           ELSE /\ sabio_pc' = "returned"
                /\ asking' = 0
                /\ UNCHANGED <<prompt_calls, asked>>
                /\ sabio_result' =
                    IF branch = "except" /\ ~inter
                    THEN [kind |-> "None", dict |-> NoValues]
                    ELSE [kind |-> "dict", dict |-> filled]

\* get_kinetic_params_from_sabio is called: the request, the extraction, and
\* the assignments up to the first prompt or the return
GetKineticParams ==
    /\ sabio_pc = "idle"
    /\ \E inter \in BOOLEAN, resp \in Responses :
        /\ interactive' = inter
        /\ response' = resp
        /\ sabio_branch' = Extract(resp).branch
        /\ averages' = Extract(resp).avg
        /\ RunFrom(Extract(resp).branch, Extract(resp).avg, inter, NoValues, 1)
    /\ UNCHANGED <<typed, rate_vars, opt_vars, local_vars, kin_vars, media_vars, temp_vars>>

InvalidTyped == Cardinality({i \in 1..Len(typed) : ~Returned(float(typed[i]))})

\* the user answers the prompt: float(input(...)) returns, and the call goes
\* on to the next prompt or the return; or it raises ValueError, 'Invalid
\* input' is printed and input() is called again
Answer ==
    /\ sabio_pc = "prompting"
    /\ \E u \in UserInputs :
        /\ typed' = Append(typed, u)
        /\ IF Returned(float(u))
           THEN RunFrom(sabio_branch, averages, interactive,
                        [values EXCEPT ![SabioParams[asking]] = float(u).val],
                        asking + 1)
           ELSE /\ InvalidTyped < MaxInvalid
                /\ asked' = Append(asked, SabioParams[asking])
                /\ UNCHANGED <<sabio_pc, asking, prompt_calls, values, sabio_result>>
    /\ UNCHANGED <<interactive, response, sabio_branch, averages,
                   rate_vars, opt_vars, local_vars, kin_vars, media_vars, temp_vars>>

----------------------------------------------------------------------------
(* media_optimizer.search_ids                                              *)

IsLetter(c) == \E i \in 1..26 : UpperCase[i] = c \/ LowerCase[i] = c
IsSpace(c) == c = " " \/ c = "\t"

\* re.match(r"^[A-Za-z]{2,5}\s*\d+", query): 2 to 5 letters at the start,
\* then any number of blanks, then a digit
MatchesCollectionNo(q) ==
    \E k \in 2..5 :
        /\ k <= Len(q)
        /\ \A i \in 1..k : IsLetter(q[i])
        /\ \E j \in k..(Len(q) - 1) :
            /\ \A i \in (k + 1)..j : IsSpace(q[i])
            /\ IsDigit(q[j + 1])

\* the first i from which s holds no blank before position i (the end of
\* the word that starts s)
RECURSIVE WordEnd(_, _)
WordEnd(s, i) == IF i > Len(s) \/ IsSpace(s[i]) THEN i - 1 ELSE WordEnd(s, i + 1)

\* query.split(): the words of the query, blanks being separators
RECURSIVE split(_)
split(s) ==
    IF s = <<>> THEN <<>>
    ELSE IF IsSpace(s[1]) THEN split(Tail(s))
    ELSE LET e == WordEnd(s, 1)
         IN  <<SubSeq(s, 1, e)>> \o split(SubSeq(s, e + 1, Len(s)))

\* a search that takes the last two words for genus and species
SearchRequest_LastTwoWords(q) ==
    IF MatchesCollectionNo(q)
    THEN [kind |-> "return", url |-> <<"culturecollectionno", q>>]
    ELSE IF Len(split(q)) < 2
    THEN [kind |-> "ValueError", url |-> <<>>]
    ELSE [kind |-> "return",
          url |-> <<"taxon", split(q)[Len(split(q)) - 1], split(q)[Len(split(q))]>>]

\* lines 61-68: the URL search_ids asks for, as its path segments, or the
\* ValueError raised before anything is asked
SearchRequest(q) ==
    IF MatchesCollectionNo(q)
    THEN [kind |-> "return", url |-> <<"culturecollectionno", q>>]
    ELSE IF Len(split(q)) < 2
    THEN [kind |-> "ValueError", url |-> <<>>]
    ELSE [kind |-> "return", url |-> <<"taxon", split(q)[1], split(q)[2]>>]

\* None as an id: what entry.get gives for a key that is absent
NoId == -1

\* an entry of the search results: a dictionary with bacdive_id and id (NoId
\* where the key is absent), an integer, or something else
DictEntry(b, i) == [t |-> "dict", bacdive_id |-> b, id |-> i]
IntEntry(n) == [t |-> "int", n |-> n]
OtherEntry == [t |-> "str"]

\* the loop of lines 73-79; a or b is b when a is None or 0
RECURSIVE CollectIds(_)
CollectIds(results) ==
    IF results = <<>> THEN <<>>
    ELSE LET e == Head(results)
         IN  (IF e.t = "dict"
              THEN <<IF e.bacdive_id \notin {0, NoId} THEN e.bacdive_id ELSE e.id>>
              ELSE IF e.t = "int" THEN <<e.n>>
              ELSE <<>>)
             \o CollectIds(Tail(results))

\* lines 70-79 on a response: the ids, or the exception raised
SearchOutcome(resp) ==
    IF resp.status # "ok" THEN [kind |-> "HTTPError", ids |-> <<>>]
    ELSE IF resp.results.t = "missing" THEN [kind |-> "return", ids |-> <<>>]
    ELSE IF resp.results.t = "null" THEN [kind |-> "TypeError", ids |-> <<>>]
    ELSE [kind |-> "return", ids |-> CollectIds(resp.results.items)]

----------------------------------------------------------------------------
(* media_optimizer.fetch_strain, extract_media, extract_temperature and    *)
(* display_media_table.  A JSON value is a record tagged with its type t:  *)
(* "dict", "list", "str", "num", "null", or "missing" for a key that is    *)
(* not there.  A string is the sequence of its characters; the degree sign *)
(* and the en dash are the characters DegreeSign and EnDash.               *)

Missing == [t |-> "missing"]
Null == [t |-> "null"]
Number(v) == [t |-> "num", v |-> v]
Chars(s) == [t |-> "str", s |-> s]
\* a string that holds no number: "LB"
Str == Chars(<<"L", "B">>)
DegreeSign == "deg"
EnDash == "endash"
List(items) == [t |-> "list", items |-> items]
\* the "results" dictionary of a fetch response, by its values in order
Dict(items) == [t |-> "dict", items |-> items]

\* a strain: its "Culture and growth conditions" block
Strain(cgc) == [t |-> "dict", cgc |-> cgc]
\* that block: the "culture medium" value and the other keys with values
Conditions(medium, others) == [t |-> "dict", medium |-> medium, others |-> others]
\* a medium of the "culture medium" list
Medium(name) == [t |-> "dict", name |-> name]
\* an entry under a temperature key: test_type and type are strings ("" where
\* absent), the other fields JSON values; this one has a value field only
TempEntry(test_type, value) ==
    [t |-> "dict", test_type |-> test_type, type |-> <<>>,
     temperature |-> Missing, temp |-> Missing, value |-> value,
     description |-> Missing]

StrainReturned(v) == [kind |-> "return", strain |-> v]
StrainRaised(e) == [kind |-> e, strain |-> Missing]

\* lines 84-91.  raw is {} when "results" is missing; next(iter(raw.values()))
\* raises StopIteration on an empty dictionary; {} is a strain with no block
fetch_strain(resp) ==
    IF resp.status # "ok" THEN StrainRaised("HTTPError")
    ELSE LET raw == IF resp.results.t = "missing" THEN Dict(<<>>) ELSE resp.results
         IN  IF raw.t = "dict"
             THEN (IF raw.items = <<>> THEN StrainRaised("StopIteration")
                   ELSE StrainReturned(raw.items[1]))
             ELSE IF raw.t = "list"
             THEN (IF raw.items # <<>> THEN StrainReturned(raw.items[1])
                   ELSE StrainReturned(Strain(Missing)))
             ELSE StrainReturned(Strain(Missing))

MediaReturned(l) == [kind |-> "return", list |-> l]
MediaRaised(e) == [kind |-> e, list |-> <<>>]

\* lines 97-101: strain.get and cgc.get need dictionaries; not media is true
\* of a missing value, of None and of an empty list
extract_media(strain) ==
    IF strain.t # "dict" THEN MediaRaised("AttributeError")
    ELSE IF strain.cgc.t = "missing" THEN MediaReturned(<<>>)
    ELSE IF strain.cgc.t # "dict" THEN MediaRaised("AttributeError")
    ELSE LET media == strain.cgc.medium
         IN  IF media.t \in {"missing", "null"} THEN MediaReturned(<<>>)
             ELSE IF media.t = "list" THEN MediaReturned(media.items)
             ELSE MediaReturned(<<media>>)

\* s holds sub at position i
HoldsAt(s, sub, i) == i + Len(sub) - 1 <= Len(s) /\ SubSeq(s, i, i + Len(sub) - 1) = sub
\* 'sub in s'
Contains(s, sub) == \E i \in 1..(Len(s) + 1) : HoldsAt(s, sub, i)

\* lines 111-117: the values under the keys that contain "temp" whatever
\* the case, a list's elements one by one
RECURSIVE Candidates_(_)
Candidates_(others) ==
    IF others = <<>> THEN <<>>
    ELSE LET key == Head(others)[1]
             val == Head(others)[2]
         IN  (IF Contains(str_lower(key), <<"t", "e", "m", "p">>)
              THEN (IF val.t = "list" THEN val.items ELSE <<val>>)
              ELSE <<>>)
             \o Candidates_(Tail(others))

\* 'not v': None, 0, an empty string or list, and a key that is absent
Falsy(v) ==
    \/ v.t \in {"missing", "null"}
    \/ v.t = "num" /\ v.v[1] = 0
    \/ v.t = "str" /\ v.s = <<>>
    \/ v.t = "list" /\ v.items = <<>>

\* the end of the run of digits that starts at i (i - 1 when s[i] is none)
RECURSIVE DigitRunEnd(_, _)
DigitRunEnd(s, i) ==
    IF i <= Len(s) /\ IsDigit(s[i]) THEN DigitRunEnd(s, i + 1) ELSE i - 1

\* [0-9]+(?:\.[0-9]+)? matched at i, greedily: the last position matched,
\* i - 1 when there is no match.  What follows a shorter match is a digit or
\* a dot, which none of the three patterns accepts there, so the greedy
\* match is the only one that can go on.
NumberEnd(s, i) ==
    LET j == DigitRunEnd(s, i)
    IN  IF j >= i /\ j + 2 <= Len(s) /\ s[j + 1] = "." /\ IsDigit(s[j + 2])
        THEN DigitRunEnd(s, j + 2)
        ELSE j

\* \s* from i: the first position that holds no blank
RECURSIVE SkipSpace(_, _)
SkipSpace(s, i) == IF i <= Len(s) /\ IsSpace(s[i]) THEN SkipSpace(s, i + 1) ELSE i

\* float(m.group(n)) for the group that spans i..e
NumberAt(s, i, e) == float(SubSeq(s, i, e)).val

First(S) == CHOOSE i \in S : \A j \in S : i <= j

\* line 137 at position i: number, blanks, en dash or hyphen, blanks, number
RangeMatches(s, i) ==
    LET e1 == NumberEnd(s, i)
        k == SkipSpace(s, e1 + 1)
        i2 == SkipSpace(s, k + 1)
    IN  /\ e1 >= i
        /\ k <= Len(s) /\ s[k] \in {"-", EnDash}
        /\ NumberEnd(s, i2) >= i2

\* line 139: (float(m.group(1)) + float(m.group(2))) / 2
RangeMean(s, i) ==
    LET e1 == NumberEnd(s, i)
        i2 == SkipSpace(s, SkipSpace(s, e1 + 1) + 1)
    IN  RDiv(RAdd(NumberAt(s, i, e1), NumberAt(s, i2, NumberEnd(s, i2))), Num(2))

\* re.search takes the leftmost of the positions where its pattern matches
Leftmost(starts) == IF starts = {} THEN 0 ELSE First(starts)

\* group 1 of a match that starts at i, as a float; None when nothing matched
GroupOne(s, i) == IF i = 0 THEN None ELSE NumberAt(s, i, NumberEnd(s, i))

\* the mean of the two groups of a range that starts at i; None when nothing
\* matched
GroupsMean(s, i) == IF i = 0 THEN None ELSE RangeMean(s, i)

\* lines 137-139: re.search finds the leftmost range; None when there is none
search_range(s) == GroupsMean(s, Leftmost({i \in 1..Len(s) : RangeMatches(s, i)}))

\* lines 141-143: the leftmost number
search_number(s) == GroupOne(s, Leftmost({i \in 1..Len(s) : IsDigit(s[i])}))

\* lines 123 and 146 at position i: number, blanks, degree sign, blanks, C or c
DegreesMatches(s, i) ==
    LET e1 == NumberEnd(s, i)
        k == SkipSpace(s, e1 + 1)
        c == SkipSpace(s, k + 1)
    IN  /\ e1 >= i
        /\ k <= Len(s) /\ s[k] = DegreeSign
        /\ c <= Len(s) /\ s[c] \in {"C", "c"}

\* the leftmost 'N [deg]C' of s; None when there is none
search_degrees(s) == GroupOne(s, Leftmost({i \in 1..Len(s) : DegreesMatches(s, i)}))

\* lines 129-143 for one field: the number it gives, or None to go on with
\* the next field ('if not v: continue', a number as it is, a string by the
\* range pattern and then the number pattern)
OrElse(m, m2) == IF m # None THEN m ELSE m2

FieldNumber(v) ==
    IF Falsy(v) THEN None
    ELSE IF v.t = "num" THEN v.v
    ELSE OrElse(search_range(v.s), search_number(v.s))

\* parse_val, lines 126-149: the first of temperature, temp, value that gives
\* a number, then the description; re.search raises TypeError on a
\* description that is null
FromDescription(v, desc) ==
    IF v # None THEN Return(v)
    ELSE IF desc.t = "missing" THEN Return(None)
    ELSE IF desc.t # "str" THEN Raise("TypeError")
    ELSE Return(search_degrees(desc.s))

parse_val(entry) ==
    FromDescription(OrElse(FieldNumber(entry.temperature),
                           OrElse(FieldNumber(entry.temp), FieldNumber(entry.value))),
                    entry.description)

\* (entry.get("test_type") or entry.get("type") or "").lower()
EntryKind(entry) ==
    str_lower(IF entry.test_type # <<>> THEN entry.test_type ELSE entry.type)

\* a loop that takes the first entry that parses, whatever its kind
RECURSIVE FirstParsed_AnyKind(_, _)
FirstParsed_AnyKind(candidates, word) ==
    IF candidates = <<>> THEN Return(None)
    ELSE IF Head(candidates).t # "dict" THEN Raise("AttributeError")
    ELSE IF parse_val(Head(candidates)) # Return(None)
    THEN parse_val(Head(candidates))
    ELSE FirstParsed_AnyKind(Tail(candidates), word)

\* one of the loops of lines 152-171: the value of the first entry whose kind
\* contains 'word' and that parses, None when there is none; AttributeError
\* when an entry met on the way is no dictionary, and what parse_val raises
RECURSIVE FirstParsed(_, _)
FirstParsed(candidates, word) ==
    IF candidates = <<>> THEN Return(None)
    ELSE IF Head(candidates).t # "dict" THEN Raise("AttributeError")
    ELSE IF Contains(EntryKind(Head(candidates)), word)
            /\ parse_val(Head(candidates)) # Return(None)
    THEN parse_val(Head(candidates))
    ELSE FirstParsed(Tail(candidates), word)

\* the punctuation json.dumps puts between two strings of the block: quotes,
\* colons, commas, brackets, never blanks alone
JsonPunctuation == "|"

\* json.dumps of a field: a string's characters; a number, null or an absent
\* key gives text that is followed by punctuation, so no 'N [deg]C' starts there
FieldText(v) == (IF v.t = "str" THEN v.s ELSE <<"#">>) \o <<JsonPunctuation>>

\* json.dumps of a value under a key: an entry by its fields, a list by its
\* elements
ElementText(v) ==
    IF v.t = "dict" /\ "value" \in DOMAIN v
    THEN v.test_type \o <<JsonPunctuation>> \o v.type \o <<JsonPunctuation>>
            \o FieldText(v.temperature) \o FieldText(v.temp) \o FieldText(v.value)
            \o FieldText(v.description)
    ELSE FieldText(v)

RECURSIVE ElementsText(_)
ElementsText(items) ==
    IF items = <<>> THEN <<JsonPunctuation>>
    ELSE ElementText(Head(items)) \o ElementsText(Tail(items))

\* line 122: blob = json.dumps(cgc, ensure_ascii=False), keys and values in
\* the order of the block
\* (the media explored hold no temperature and are left out)
RECURSIVE Blob(_)
Blob(others) ==
    IF others = <<>> THEN <<>>
    ELSE Head(others)[1] \o <<JsonPunctuation>>
            \o (IF Head(others)[2].t = "list"
                THEN ElementsText(Head(others)[2].items)
                ELSE ElementText(Head(others)[2]))
            \o Blob(Tail(others))

\* the strings extract_temperature returns: '-', and val formatted with :g
\* (which prints a value of up to six significant digits as it is) followed
\* by the degree sign and C
Dash == [form |-> "-", val |-> None]
Degrees(val) == [form |-> "{val:g}[deg]C", val |-> val]

\* f"{val:g}[deg]C" for a value, '-' for None
Formatted(val) == IF val = None THEN Return(Dash) ELSE Return(Degrees(val))

\* lines 152-173: the loops in their order; the first that raises or finds a
\* value ends the function, '-' when none does
RECURSIVE FirstLoop(_)
FirstLoop(loops) ==
    IF loops = <<>> THEN Return(Dash)
    ELSE IF ~Returned(Head(loops)) THEN Head(loops)
    ELSE IF Head(loops).val # None THEN Formatted(Head(loops).val)
    ELSE FirstLoop(Tail(loops))

\* lines 106-173: '-' for a block that is empty or absent; the blob when no
\* key holds a candidate; else optimum first, then growth, then any entry
extract_temperature(strain) ==
    IF strain.t # "dict" THEN Raise("AttributeError")
    ELSE IF Falsy(strain.cgc) THEN Return(Dash)
    ELSE IF strain.cgc.t # "dict" THEN Raise("AttributeError")
    ELSE IF strain.cgc.medium.t = "missing" /\ strain.cgc.others = <<>>
    THEN Return(Dash)
    ELSE IF Candidates_(strain.cgc.others) = <<>>
    THEN Formatted(search_degrees(Blob(strain.cgc.others)))
    ELSE FirstLoop(<<FirstParsed(Candidates_(strain.cgc.others),
                                 <<"o", "p", "t", "i", "m", "u", "m">>),
                     FirstParsed(Candidates_(strain.cgc.others),
                                 <<"g", "r", "o", "w", "t", "h">>),
                     FirstParsed(Candidates_(strain.cgc.others), <<>>)>>)

\* lines 185-195: m.get(...) for every medium, then the table is printed
display_media_table(media_list) ==
    IF \E i \in 1..Len(media_list) : media_list[i].t # "dict"
    THEN "AttributeError"
    ELSE "printed"

----------------------------------------------------------------------------
(* media_optimizer.run, from the call to its end, one step per HTTP        *)
(* response.                                                               *)

\* the queries explored, character by character
QAB12 == <<"A", "B", " ", "1", "2">>
QAB12J == <<"A", "B", "1", "2">>
QDSM == <<"D", "S", "M", " ", " ", "1", "0", " ", "x">>
QA1 == <<"A", " ", "1">>
QABCDEF1 == <<"A", "B", "C", "D", "E", "F", " ", "1">>
QBASU == <<"B", "a", " ", "s", "u">>
QBASU168 == <<"B", "a", " ", "s", "u", " ", "1", "6", "8">>
QBA == <<"B", "a">>
QSPAB12 == <<" ", "A", "B", " ", "1", "2">>
QABX == <<"A", "B", " ", "x">>

\* the queries explored: "AB 12", "AB12", "DSM  10 x", "A 1", "ABCDEF 1",
\* "Ba su", "Ba su 168", "Ba", "", " AB 12" and "AB x"
MediaQueries ==
    {QAB12, QAB12J, QDSM, QA1, QABCDEF1,
     QBASU, QBASU168, QBA, <<>>, QSPAB12, QABX}

\* a JSON string with its text
Text(s) == [t |-> "str", s |-> s]

\* the token endpoint's answers by status and "access_token" value: a
\* token, an empty one, null, none at all, and an error status
TokenResponses ==
    {[status |-> "ok", token |-> Text("fake-token")],
     [status |-> "ok", token |-> Text("")],
     [status |-> "ok", token |-> Null],
     [status |-> "ok", token |-> Missing],
     [status |-> "error", token |-> Missing],
     [status |-> "error", token |-> Text("fake-token")]}

TokenReturned(token) == [kind |-> "return", token |-> token]
TokenRaised(e) == [kind |-> e, token |-> Missing]

\* a token check that tests for None only
get_bearer_token_EmptyAccepted(resp) ==
    IF resp.status # "ok" THEN TokenRaised("HTTPError")
    ELSE IF resp.token.t \in {"missing", "null"} THEN TokenRaised("RuntimeError")
    ELSE TokenReturned(resp.token)

\* lines 45-50: raise_for_status, .get("access_token"), 'if not token'
get_bearer_token(resp) ==
    IF resp.status # "ok" THEN TokenRaised("HTTPError")
    ELSE IF resp.token.t \in {"missing", "null"} THEN TokenRaised("RuntimeError")
    ELSE IF resp.token.s = "" THEN TokenRaised("RuntimeError")
    ELSE TokenReturned(resp.token)

\* lines 55-56: the Authorization header
get_headers(token) == [Authorization |-> <<"Bearer", token.s>>]
NoHeaders == [Authorization |-> <<>>]

\* the search endpoints' answers, the fixtures of the tests among them
SearchResponses ==
    {[status |-> "error", results |-> Missing],
     [status |-> "ok", results |-> Missing],
     [status |-> "ok", results |-> Null],
     [status |-> "ok", results |-> List(<<>>)],
     [status |-> "ok", results |-> List(<<DictEntry(42, NoId), IntEntry(99)>>)],
     [status |-> "ok", results |-> List(<<DictEntry(NoId, 123), IntEntry(456)>>)],
     [status |-> "ok", results |-> List(<<DictEntry(NoId, NoId)>>)],
     [status |-> "ok", results |-> List(<<OtherEntry>>)]}

\* "optimum", "growth", and keys of the block
OPTIMUM == <<"o", "p", "t", "i", "m", "u", "m">>
GROWTH == <<"g", "r", "o", "w", "t", "h">>
OptTempKey == <<"o", "p", "t", "_", "t", "e", "m", "p">>
TemperatureKey == <<"T", "e", "m", "p", "e", "r", "a", "t", "u", "r", "e">>
PHKey == <<"p", "H">>

\* the strains explored
HappyStrain ==
    Strain(Conditions(List(<<Medium("M1")>>),
                      << <<OptTempKey, List(<<TempEntry(OPTIMUM, Number(Num(37)))>>)>> >>))
GrowthThenOptimum ==
    Strain(Conditions(List(<<Medium("A"), Medium("B")>>),
                      << <<PHKey, Str>>,
                         <<TemperatureKey,
                           List(<<TempEntry(GROWTH, Number(Num(42))), TempEntry(OPTIMUM, Number(Num(37)))>>)>> >>))
Strains ==
    {HappyStrain, GrowthThenOptimum,
     Strain(Missing),
     Strain(Conditions(Missing, <<>>)),
     Strain(Conditions(Medium("X"), <<>>)),
     Strain(Conditions(List(<<>>), << <<OptTempKey, TempEntry(<<>>, Number(Zero))>> >>)),
     Strain(Conditions(Str, <<>>)),
     Strain(Conditions(List(<<Medium("M1")>>), << <<TemperatureKey, Str>> >>)),
     Strain(Conditions(Missing, << <<OptTempKey, List(<<TempEntry(OPTIMUM, Number(Num(37)))>>)>> >>)),
     Str}

\* the fetch endpoint's answers
FetchResponses ==
    {[status |-> "error", results |-> Missing],
     [status |-> "ok", results |-> Missing],
     [status |-> "ok", results |-> Null],
     [status |-> "ok", results |-> Str],
     [status |-> "ok", results |-> Dict(<<>>)],
     [status |-> "ok", results |-> List(<<>>)],
     [status |-> "ok", results |-> List(<<HappyStrain, Strain(Missing)>>)]}
        \cup {[status |-> "ok", results |-> Dict(<<st>>)] : st \in Strains}
        \cup {[status |-> "ok", results |-> List(<<st>>)] : st \in Strains}

NoAnswer == [status |-> "none", results |-> Missing]
NoSearch == [kind |-> "none", ids |-> <<>>]
NoFetch == StrainRaised("none")

MediaInit ==
    /\ media_pc = "idle"
    /\ media_query = <<>>
    /\ http_log = <<>>
    /\ token_response = [status |-> "none", token |-> Missing]
    /\ headers = NoHeaders
    /\ search_response = NoAnswer
    /\ search_result = NoSearch
    /\ fetch_response = NoAnswer
    /\ fetch_result = NoFetch
    /\ console = <<>>
    /\ exit_code = -1
    /\ run_exception = ""

\* run(query) is called; get_headers calls get_bearer_token, which posts to
\* the token endpoint
Run ==
    /\ media_pc = "idle"
    /\ \E q \in MediaQueries : media_query' = q
    /\ http_log' = <<[method |-> "POST", url |-> <<"token">>]>>
    /\ media_pc' = "awaiting_token"
    /\ UNCHANGED <<token_response, headers, search_response, search_result,
                   fetch_response, fetch_result, console, exit_code, run_exception,
                   rate_vars, opt_vars, local_vars, kin_vars, sabio_vars,
                   temp_vars>>

\* the token endpoint answers: lines 46-50, then search_ids up to its request
TokenResponse ==
    /\ media_pc = "awaiting_token"
    /\ \E resp \in TokenResponses :
        /\ token_response' = resp
        /\ IF get_bearer_token(resp).kind # "return"
           THEN /\ media_pc' = "raised"
                /\ run_exception' = get_bearer_token(resp).kind
                /\ UNCHANGED <<headers, http_log, search_result, console, exit_code>>
           ELSE /\ headers' = get_headers(get_bearer_token(resp).token)
                /\ IF SearchRequest(media_query).kind = "ValueError"
                   THEN /\ search_result' = [kind |-> "ValueError", ids |-> <<>>]
                        /\ console' = Append(console, "[red]Error:[/]")
                        /\ exit_code' = 1
                        /\ media_pc' = "exited"
                        /\ UNCHANGED <<http_log, run_exception>>
                   ELSE /\ http_log' = Append(http_log,
                               [method |-> "GET", url |-> SearchRequest(media_query).url])
                        /\ media_pc' = "awaiting_search"
                        /\ UNCHANGED <<search_result, console, exit_code, run_exception>>
    /\ UNCHANGED <<media_query, search_response, fetch_response, fetch_result,
                   rate_vars, opt_vars, local_vars, kin_vars, sabio_vars,
                   temp_vars>>

\* the search endpoint answers: lines 71-79, then lines 208-212 of run up to
\* fetch_strain's request
SearchResponse ==
    /\ media_pc = "awaiting_search"
    /\ \E resp \in SearchResponses :
        LET found == SearchOutcome(resp)
        IN  /\ search_response' = resp
            /\ search_result' = found
            /\ IF found.kind # "return"
               THEN /\ media_pc' = "raised" /\ run_exception' = found.kind
                    /\ UNCHANGED <<http_log, console, exit_code>>
               ELSE IF found.ids = <<>>
               THEN /\ console' = Append(console, "No strains found")
                    /\ exit_code' = 0
                    /\ media_pc' = "exited"
                    /\ UNCHANGED <<http_log, run_exception>>
               ELSE /\ http_log' = Append(http_log,
                            [method |-> "GET", url |-> <<"fetch", found.ids[1]>>])
                    /\ media_pc' = "awaiting_fetch"
                    /\ UNCHANGED <<console, exit_code, run_exception>>
    /\ UNCHANGED <<media_query, token_response, headers, fetch_response, fetch_result,
                   rate_vars, opt_vars, local_vars, kin_vars, sabio_vars,
                   temp_vars>>

\* table shown for a strain without media
RunEnd_TableForNoMedia(resp) ==
    LET fetched == fetch_strain(resp)
        media == extract_media(fetched.strain)
        temperature == extract_temperature(fetched.strain)
    IN  IF fetched.kind # "return" THEN fetched.kind
        ELSE IF media.kind # "return" THEN media.kind
        ELSE IF ~Returned(temperature) THEN temperature.kind
        ELSE IF display_media_table(media.list) # "printed"
        THEN display_media_table(media.list)
        ELSE "displayed"

\* how lines 212-220 end on a fetch response: the exception that leaves
\* run, or "no_media", or "displayed"
RunEnd(resp) ==
    LET fetched == fetch_strain(resp)
        media == extract_media(fetched.strain)
        temperature == extract_temperature(fetched.strain)
    IN  IF fetched.kind # "return" THEN fetched.kind
        ELSE IF media.kind # "return" THEN media.kind
        ELSE IF ~Returned(temperature) THEN temperature.kind
        ELSE IF media.list = <<>> THEN "no_media"
        ELSE IF display_media_table(media.list) # "printed"
        THEN display_media_table(media.list)
        ELSE "displayed"

\* the fetch endpoint answers: fetch_strain, the two extractions, and the
\* table or the message
FetchResponse ==
    /\ media_pc = "awaiting_fetch"
    /\ \E resp \in FetchResponses :
        /\ fetch_response' = resp
        /\ fetch_result' = fetch_strain(resp)
        /\ IF RunEnd(resp) = "displayed"
           THEN /\ console' = Append(console, "table")
                /\ media_pc' = "returned"
                /\ UNCHANGED <<exit_code, run_exception>>
           ELSE IF RunEnd(resp) = "no_media"
           THEN /\ console' = Append(console, "No medium info available")
                /\ exit_code' = 0
                /\ media_pc' = "exited"
                /\ UNCHANGED run_exception
           ELSE /\ media_pc' = "raised" /\ run_exception' = RunEnd(resp)
                /\ UNCHANGED <<console, exit_code>>
    /\ UNCHANGED <<media_query, http_log, token_response, headers,
                   search_response, search_result,
                   rate_vars, opt_vars, local_vars, kin_vars, sabio_vars,
                   temp_vars>>

----------------------------------------------------------------------------
(* media_optimizer.extract_temperature called on a strain, as the tests    *)
(* call it.                                                                *)

\* "37 [deg]C", "20[en dash]30 [deg]C", "10-20", "warm", "-5 [deg]C"
T37C == <<"3", "7", " ", DegreeSign, "C">>
T20to30C == <<"2", "0", EnDash, "3", "0", " ", DegreeSign, "C">>
T10to20 == <<"1", "0", "-", "2", "0">>
TWarm == <<"w", "a", "r", "m">>
TMinus5C == <<"-", "5", " ", DegreeSign, "C">>
\* "at 55 [deg]C", "42.5[deg]c then 30 [deg]C"
TAt55C == <<"a", "t", " ", "5", "5", " ", DegreeSign, "C">>
T42then30 ==
    <<"4", "2", ".", "5", DegreeSign, "c", " ", "t", "h", "e", "n", " ",
      "3", "0", " ", DegreeSign, "C">>

\* the values of an entry's value field: absent, 0, 42, "37 [deg]C", "warm"
FieldValues == {Missing, Number(Zero), Number(Num(42)), Chars(T37C), Chars(TWarm)}

\* test_type of an entry: absent, "optimum", "growth"
EntryKinds == {<<>>, OPTIMUM, GROWTH}

\* the entries explored: every kind with every value; the ranges and the
\* negative number; the kind "Optimum growth"; the kind under type;
\* test_type and type that differ; the temperature and temp fields before
\* value; a description; a null description
CandidateEntries ==
    {TempEntry(k, v) : k \in EntryKinds, v \in FieldValues}
        \cup {TempEntry(<<>>, Chars(T20to30C)), TempEntry(GROWTH, Chars(T10to20)),
              TempEntry(<<>>, Chars(TMinus5C)),
              TempEntry(<<"O">> \o Tail(OPTIMUM) \o <<" ">> \o GROWTH, Number(Num(42))),
              [TempEntry(<<>>, Number(Num(42))) EXCEPT !.type = OPTIMUM],
              [TempEntry(GROWTH, Number(Num(42))) EXCEPT !.type = OPTIMUM],
              [TempEntry(<<>>, Chars(T37C)) EXCEPT !.temp = Chars(T10to20)],
              [TempEntry(<<>>, Chars(T37C)) EXCEPT !.temperature = Chars(TWarm)],
              [TempEntry(<<>>, Missing) EXCEPT !.description = Chars(TAt55C)],
              [TempEntry(<<>>, Number(Zero)) EXCEPT !.description = Chars(TWarm)],
              [TempEntry(<<>>, Chars(TWarm)) EXCEPT !.description = Null]}

\* what a key that contains 'temp' may hold besides entries: a string, a
\* number
PlainValues == {Chars(<<"3", "7">>), Number(Num(37))}

\* the lists of up to n entries
RECURSIVE CandidateLists(_)
CandidateLists(n) ==
    IF n = 0 THEN {<<>>}
    ELSE CandidateLists(n - 1) \cup
         {Append(l, e) : l \in {u \in CandidateLists(n - 1) : Len(u) = n - 1},
                         e \in CandidateEntries}

\* the blocks explored: a list of entries under a temperature key; one entry,
\* a string or a number under it; a list with a string in it; blocks with no
\* such key, with and without 'N [deg]C' in their text; the empty block
ExtractBlocks ==
    {Conditions(Missing, << <<TemperatureKey, List(l)>> >>) : l \in CandidateLists(MaxCandidates)}
        \cup {Conditions(Missing, << <<OptTempKey, v>> >>) : v \in CandidateEntries \cup PlainValues}
        \cup {Conditions(Missing, << <<OptTempKey, List(<<v>>)>> >>) : v \in PlainValues}
        \cup {Conditions(Missing, << <<PHKey, v>> >>) :
                 v \in {Str, Number(Num(30)), Chars(TAt55C), Chars(T42then30),
                        List(<<[TempEntry(<<>>, Missing) EXCEPT !.description = Chars(TAt55C)]>>)}}
        \cup {Conditions(Missing, << <<PHKey, Chars(TWarm)>>, <<PHKey, Chars(T37C)>> >>),
              Conditions(Missing, << <<OptTempKey, List(<<>>)>>, <<PHKey, Chars(T37C)>> >>),
              Conditions(Missing, << <<TemperatureKey, List(<<TempEntry(<<>>, Chars(TWarm))>>)>>,
                                     <<PHKey, Chars(T37C)>> >>),
              Conditions(Missing, <<>>)}

\* the strains explored: a block, no block, a null block, a string for a block
ExtractStrains ==
    {Strain(b) : b \in ExtractBlocks} \cup {Strain(Missing), Strain(Null), Strain(Str)}

NoTemperature == Raise("none")

TempInit ==
    /\ extract_pc = "idle"
    /\ extract_strain = Strain(Missing)
    /\ extracted = NoTemperature

\* a caller invokes extract_temperature on a strain
ExtractTemperature ==
    /\ extract_pc = "idle"
    /\ \E st \in ExtractStrains :
        /\ extract_strain' = st
        /\ extracted' = extract_temperature(st)
        /\ extract_pc' = "done"
    /\ UNCHANGED <<rate_vars, opt_vars, local_vars, kin_vars, sabio_vars, media_vars>>

----------------------------------------------------------------------------
(* Specifications.                                                         *)

Init ==
    RateInit /\ OptInit /\ LocalInit /\ KinInit /\ SabioInit /\ MediaInit /\ TempInit

\* calls of simulate_reaction_rate
Next == Simulate \/ SimulateAgain \/ SimulateCopy

Spec == Init /\ [][Next]_vars

\* one call of optimize_reaction
OptNext == Optimize \/ Evaluate \/ Finish

SpecOptimize == Init /\ [][OptNext]_vars

\* one call of simulate_from_local_data
LocalNext == SimulateFromLocalData

SpecLocal == Init /\ [][LocalNext]_vars

\* calls of normalize_keys and of get_enzyme_kinetics
KinNext == NormalizeKeys \/ GetEnzymeKinetics

SpecKinetics == Init /\ [][KinNext]_vars

\* one call of get_kinetic_params_from_sabio and the user's answers
SabioNext == GetKineticParams \/ Answer

SpecSabio == Init /\ [][SabioNext]_vars

\* one call of media_optimizer.run
MediaNext == Run \/ TokenResponse \/ SearchResponse \/ FetchResponse

SpecMedia == Init /\ [][MediaNext]_vars

\* calls of extract_temperature
TempNext == ExtractTemperature

SpecTemperature == Init /\ [][TempNext]_vars

----------------------------------------------------------------------------
(* Properties of simulate_reaction_rate.                                   *)

Positive(x) == RLt(Zero, x)
NonNegative(x) == RLe(Zero, x)
Inhibited(a) == a.inhibitor_conc # None /\ a.ki # None

\* the valid inputs of the data model
Valid(a) ==
    /\ Positive(a.vmax) /\ Positive(a.km) /\ NonNegative(a.substrate_conc)
    /\ Positive(a.pH_sigma) /\ Positive(a.temp_sigma)
    /\ a.inhibitor_conc # None => NonNegative(a.inhibitor_conc)
    /\ a.ki # None => Positive(a.ki)

\* C1: for all valid inputs simulate_reaction_rate returns a value >= 0.
C1_RateNonNegative ==
    (rate_pc = "done" /\ Valid(call))
        => (Returned(outcome) /\ NonNegative(outcome.val))

C1_Witness ==
    /\ rate_pc = "done" /\ Valid(call) /\ Inhibited(call)
    /\ Positive(call.inhibitor_conc)
    /\ call.pH # call.optimal_pH /\ call.temp # call.optimal_temp
    /\ Returned(outcome) /\ Positive(outcome.val)

\* hi is the call lo with more inhibitor: a larger inhibitor_conc, or a
\* positive one where lo has none; ki > 0 is the same in both
MoreInhibitor(lo, hi) ==
    /\ Valid(lo) /\ Valid(hi) /\ lo.ki # None
    /\ hi.inhibitor_conc # None
    /\ IF lo.inhibitor_conc = None THEN Positive(hi.inhibitor_conc)
       ELSE RLt(lo.inhibitor_conc, hi.inhibitor_conc)

\* the claim as stated: more inhibitor, strictly smaller rate
StrictlyLess(lo, lo_out, hi, hi_out) ==
    MoreInhibitor(lo, hi)
        => (Returned(lo_out) /\ Returned(hi_out) /\ RLt(hi_out.val, lo_out.val))

\* C2 as stated: for fixed ki > 0 and valid arguments (substrate_conc >= 0),
\* increasing inhibitor_conc strictly decreases the returned rate.
C2_StrictlyDecreasing ==
    (rate_pc = "done" /\ prev_call # NoCall)
        => /\ StrictlyLess(prev_call, prev_outcome, call, outcome)
           /\ StrictlyLess(call, outcome, prev_call, prev_outcome)

\* the claim as amended
Decreasing(lo, lo_out, hi, hi_out) ==
    MoreInhibitor(lo, hi)
        => /\ Returned(lo_out) /\ Returned(hi_out)
           /\ RLe(hi_out.val, lo_out.val)
           /\ Positive(lo_out.val) => RLt(hi_out.val, lo_out.val)
           /\ IsZero(lo.substrate_conc) => (IsZero(lo_out.val) /\ IsZero(hi_out.val))
           /\ (Positive(lo.substrate_conc) /\ lo.temp = lo.optimal_temp
                  /\ lo.pH = lo.optimal_pH) => Positive(lo_out.val)

\* C2 amended: increasing inhibitor_conc never increases the rate, and
\* strictly decreases it whenever the rate before the increase is positive
\* (substrate_conc > 0 and no penalty underflowed to 0); at substrate_conc = 0
\* the rate is 0 with any inhibitor.
C2_DecreasingWherePositive ==
    (rate_pc = "done" /\ prev_call # NoCall)
        => /\ Decreasing(prev_call, prev_outcome, call, outcome)
           /\ Decreasing(call, outcome, prev_call, prev_outcome)

C2_Witness ==
    /\ rate_pc = "done" /\ prev_call # NoCall
    /\ MoreInhibitor(prev_call, call)
    /\ prev_call.inhibitor_conc # None
    /\ Returned(outcome) /\ Returned(prev_outcome)
    /\ RLt(outcome.val, prev_outcome.val)

\* valid but for the part a claim is about
ValidKinetics(a) ==
    Positive(a.vmax) /\ Positive(a.km) /\ NonNegative(a.substrate_conc)
ValidSigmas(a) == Positive(a.pH_sigma) /\ Positive(a.temp_sigma)
ValidInhibition(a) ==
    /\ a.inhibitor_conc # None => NonNegative(a.inhibitor_conc)
    /\ a.ki # None => Positive(a.ki)

\* effective Km + substrate_conc equals 0
ZeroDenominator(a) ==
    LET k == KmEffective(a)
    IN  Returned(k) /\ IsZero(RAdd(k.val, a.substrate_conc))

\* C3: when effective Km + substrate_conc equals 0, simulate_reaction_rate
\* fails with an InvalidInputError and with no other outcome.
C3_ZeroDenominatorRejected ==
    (rate_pc = "done" /\ ZeroDenominator(call)
        /\ Positive(call.vmax) /\ ValidSigmas(call) /\ ValidInhibition(call))
        => outcome.kind = "InvalidInputError"

\* C4: every call with pH_sigma <= 0 or temp_sigma <= 0, zero and negative
\* alike, is rejected with an error (InvalidInputError); no such call
\* returns a rate.
C4_NonPositiveSigmaRejected ==
    (rate_pc = "done" /\ ValidKinetics(call) /\ ValidInhibition(call)
        /\ (RLe(call.pH_sigma, Zero) \/ RLe(call.temp_sigma, Zero)))
        => ~Returned(outcome)

\* the rate computed with the effective Km the claim describes
RateWithKm(a, km_effective) ==
    LET v == Divide(Return(RMul(a.vmax, a.substrate_conc)),
                    Return(RAdd(km_effective, a.substrate_conc)))
    IN  IF v.kind # "return" THEN v
        ELSE Times(v, Times(Gaussian(a.temp, a.optimal_temp, a.temp_sigma),
                            Gaussian(a.pH, a.optimal_pH, a.pH_sigma)))

\* C5: effective Km is km * (1 + inhibitor_conc / ki) exactly when both are
\* present and ki is not 0; in every other case, ki = 0 included, it is km
\* and the call still returns a rate.
C5_EffectiveKmGuarded ==
    (rate_pc = "done" /\ ValidKinetics(call) /\ ValidSigmas(call)
        /\ (call.inhibitor_conc # None => NonNegative(call.inhibitor_conc)))
        => outcome =
            RateWithKm(call,
                IF Inhibited(call) /\ ~IsZero(call.ki)
                THEN RMul(call.km,
                          RAdd(One, RDiv(call.inhibitor_conc, call.ki)))
                ELSE call.km)

\* C6: at pH = optimal_pH and temp = optimal_temp the returned rate is
\* exactly vmax * substrate_conc / (effective Km + substrate_conc), for every
\* valid vmax, km, substrate_conc and sigma values.
C6_UnpenalizedAtOptimum ==
    (rate_pc = "done" /\ Valid(call)
        /\ call.pH = call.optimal_pH /\ call.temp = call.optimal_temp)
        => /\ Returned(outcome)
           /\ outcome.val =
                RDiv(RMul(call.vmax, call.substrate_conc),
                     RAdd(IF Inhibited(call)
                          THEN RMul(call.km,
                                    RAdd(One, RDiv(call.inhibitor_conc, call.ki)))
                          ELSE call.km,
                          call.substrate_conc))

\* the spec's example: vmax 100, km 0.5, substrate 1.0, inhibitor 0.5, ki 0.1
C6_Witness ==
    /\ rate_pc = "done" /\ Valid(call)
    /\ call.pH = call.optimal_pH /\ call.temp = call.optimal_temp
    /\ call.vmax = Num(100) /\ call.km = Rat(1, 2) /\ call.substrate_conc = One
    /\ call.inhibitor_conc = Rat(1, 2) /\ call.ki = Rat(1, 10)
    /\ outcome = Return(Num(25))

----------------------------------------------------------------------------
(* Properties of optimize_reaction.                                        *)

Has(d, ks) == FirstMissing(d, ks) = ""

\* an enzyme dictionary with valid values
ValidEnzyme(e) ==
    /\ Has(e, RequiredKeys)
    /\ Positive(e["vmax"]) /\ Positive(e["km"])
    /\ "pH_sigma" \in DOMAIN e => Positive(e["pH_sigma"])
    /\ "temp_sigma" \in DOMAIN e => Positive(e["temp_sigma"])
    /\ "inhibitor_conc" \in DOMAIN e => NonNegative(e["inhibitor_conc"])
    /\ "ki" \in DOMAIN e => Positive(e["ki"])

Within(x, lower, upper) == RLe(lower, x) /\ RLe(x, upper)

\* C7: for every enzyme with valid values optimize_reaction returns
\* best_conditions of exactly three components, substrate in [0.01, 10.0],
\* pH in [4.0, 9.0], temperature in [20.0, 60.0], and max_rate >= 0,
\* whatever points the optimizer visited.
C7_ResultWithinBounds ==
    (opt_pc # "idle" /\ ValidEnzyme(enzyme_params))
        => /\ opt_pc # "raised"
           /\ opt_pc = "returned" =>
                /\ opt_result.kind = "return"
                /\ Len(opt_result.best_conditions) = 3
                /\ Within(opt_result.best_conditions[1], Rat(1, 100), Num(10))
                /\ Within(opt_result.best_conditions[2], Num(4), Num(9))
                /\ Within(opt_result.best_conditions[3], Num(20), Num(60))
                /\ NonNegative(opt_result.max_rate)

C7_Witness ==
    /\ opt_pc = "returned" /\ ValidEnzyme(enzyme_params)
    /\ "ki" \in DOMAIN enzyme_params
    /\ evals >= 2
    /\ opt_result.best_conditions = <<Num(10), Num(7), Num(37)>>
    /\ Positive(opt_result.max_rate)

\* C8: if the optimizer reports that it failed to converge, optimize_reaction
\* fails with an OptimizationError and returns no result dictionary.  (The
\* bounds are literals of the function and are never malformed.)
C8_NonConvergenceRaises ==
    (de_status = "not_converged" /\ ValidEnzyme(enzyme_params))
        => (opt_pc = "raised" /\ opt_result.kind = "OptimizationError")

\* C9: the objective is evaluated with the tolerances the enzyme dictionary
\* supplies; the smoke test's enzyme, passed with ph_sigma 0.5 and
\* temp_sigma 5.0, is optimized with pH tolerance 0.5.
C9_SuppliedToleranceUsed ==
    (opt_pc \in {"searching", "returned"} /\ evals >= 1
        /\ enzyme_params = SmokeTestEnzyme)
        => (call.pH_sigma = Rat(1, 2) /\ call.temp_sigma = Num(5))

----------------------------------------------------------------------------
(* Properties of simulate_from_local_data.                                 *)

\* C10: whenever the lookup yields vmax, km, optimal_pH and optimal_temp the
\* call returns a rate together with the looked-up parameters; with no
\* override passed, a looked-up sigma is used and where the record has none
\* (it carries ph_sigma instead, say) the literal defaults 1.0 and 5.0 are.
C10_DefaultsWhenSigmaAbsent ==
    (local_pc = "done" /\ lookup.kind = "return"
        /\ Has(lookup.params, RequiredKeys)
        /\ request.pH_sigma = None /\ request.temp_sigma = None)
        => /\ local_result.kind = "return"
           /\ local_result.params = lookup.params
           /\ call.pH_sigma = Get(lookup.params, "pH_sigma", One)
           /\ call.temp_sigma = Get(lookup.params, "temp_sigma", Num(5))

\* the parameters a rate computation takes from the record or an override
UsedKeys == {"vmax", "km", "optimal_pH", "optimal_temp", "pH_sigma", "temp_sigma", "ki"}

\* C11: a caller-supplied pH_sigma, temp_sigma or ki (any value other than
\* None) is the one used in the rate computation, the looked-up value is used
\* exactly when the caller passes None, and the dictionary returned as second
\* element holds the parameters used for the simulation.
C11_OverridesUsedAndReported ==
    (local_pc = "done" /\ local_result.kind = "return"
        /\ Has(lookup.params, <<"pH_sigma", "temp_sigma">>))
        => /\ call.pH_sigma = IF request.pH_sigma # None THEN request.pH_sigma
                              ELSE lookup.params["pH_sigma"]
           /\ call.temp_sigma = IF request.temp_sigma # None THEN request.temp_sigma
                                ELSE lookup.params["temp_sigma"]
           /\ call.ki = IF request.ki # None THEN request.ki
                        ELSE Get(lookup.params, "ki", None)
           /\ \A k \in UsedKeys : Get(local_result.params, k, None) = call[k]

----------------------------------------------------------------------------
(* Properties of get_enzyme_kinetics and normalize_keys.                   *)

\* the entries of the file that match the query: the enzyme name equal
\* ignoring case, and the organism too unless none is asked for
MatchingEntries ==
    {i \in 1..Len(data) :
        /\ Len(rsplit(data[i].key)) = 2
        /\ IsMatch(data[i].key, query.enzyme_name, query.organism)}

FirstMatching == CHOOSE i \in MatchingEntries : \A j \in MatchingEntries : i <= j

\* C12: get_enzyme_kinetics returns the parameters of the first entry in
\* file order that matches the enzyme name and the organism ignoring case
\* (any organism when organism is None), and raises the 'No match found'
\* ValueError exactly when no entry matches, whatever other keys the file
\* contains.
C12_FirstMatchOrNoMatch ==
    kin_pc = "done"
        => IF MatchingEntries = {}
           THEN kinetics = KineticsError("ValueError", "No match found")
           ELSE kinetics =
                    KineticsFound(Matched(query.module, data[FirstMatching].params))

\* the unit-tagged keys and their generic names
UnitTagged ==
    ("km_mM" :> "km") @@ ("vmax_umol_per_min" :> "vmax")
        @@ ("optimal_temp_C" :> "optimal_temp")
        @@ ("temp_sigma_C" :> "temp_sigma") @@ ("ki_mM" :> "ki")

Generic(k) == IF k \in DOMAIN UnitTagged THEN UnitTagged[k] ELSE k

\* the generic names the keys of the input take
GenericNames == {Generic(param_dict[i][1]) : i \in 1..Len(param_dict)}

\* two keys of the input take the same generic name
Collision ==
    \E i, j \in 1..Len(param_dict) :
        i # j /\ Generic(param_dict[i][1]) = Generic(param_dict[j][1])

\* C13 as stated: normalize_keys renames each unit-tagged key to its generic
\* name with the value unchanged, keeps every other key and value as it is,
\* and never loses a value of the input dictionary.
C13_NoValueLost ==
    norm_pc = "done"
        => /\ DOMAIN normalized = GenericNames
           /\ \A i \in 1..Len(param_dict) :
                normalized[Generic(param_dict[i][1])] = param_dict[i][2]

\* C13 amended: the result has exactly the generic names of the input's keys;
\* under each it holds the value of the last input key, in the dictionary's
\* order, that takes that name; so every value is kept unless the input holds
\* a unit-tagged key together with its generic name, and then the earlier of
\* the two values is lost.
C13_LastItemWins ==
    norm_pc = "done"
        => /\ DOMAIN normalized = GenericNames
           /\ \A i \in 1..Len(param_dict) :
                (\A j \in (i + 1)..Len(param_dict) :
                    Generic(param_dict[j][1]) # Generic(param_dict[i][1]))
                => normalized[Generic(param_dict[i][1])] = param_dict[i][2]
           /\ ~Collision =>
                \A i \in 1..Len(param_dict) :
                    normalized[Generic(param_dict[i][1])] = param_dict[i][2]

\* {"km": 0.3, "extra_param": 42, "km_mM": 0.5} becomes km 0.5, extra_param 42
C13_Witness ==
    /\ norm_pc = "done"
    /\ param_dict = ItemsOf(<<"km", "extra_param", "km_mM">>)
    /\ normalized = ("km" :> Rat(1, 2)) @@ ("extra_param" :> Num(42))

----------------------------------------------------------------------------
(* Properties of sabio.get_kinetic_params_from_sabio.                      *)

IsPrefix(p, q) == Len(p) <= Len(q) /\ SubSeq(q, 1, Len(p)) = p

\* the response text holds a value of parameter p
InText(p) == \E i \in 1..Len(response.text) : response.text[i].param = p

\* the parameters for which the text holds no value, in the order Km, Vmax,
\* optimal pH, optimal temperature
MissingParams == SelectSeq(SabioParams, LAMBDA p : ~InText(p))

\* the numbers the text's tokens stand for
TokenValue == (<<"0">> :> Zero) @@ (<<"0", ".", "5">> :> Rat(1, 2))

AllTokensNumeric ==
    \A i \in 1..Len(response.text) : response.text[i].token \in DOMAIN TokenValue

\* the arithmetic mean of the values of parameter p in the text
RECURSIVE TotalOf(_, _)
TotalOf(p, text) ==
    IF text = <<>> THEN Zero
    ELSE RAdd(IF Head(text).param = p THEN TokenValue[Head(text).token] ELSE Zero,
              TotalOf(p, Tail(text)))

MeanInText(p) ==
    RDiv(TotalOf(p, response.text),
         Num(Cardinality({i \in 1..Len(response.text) : response.text[i].param = p})))

\* C14: in interactive mode with a successful HTTP response the user is
\* prompted exactly for the parameters for which the response contained no
\* value, in the order Km, Vmax, optimal pH, optimal temperature, and every
\* parameter the response did contain is returned from the response without
\* a prompt.
C14_PromptsExactlyForMissing ==
    (sabio_pc # "idle" /\ interactive /\ response.status = "ok"
        /\ AllTokensNumeric)
        => /\ IsPrefix(prompt_calls, MissingParams)
           /\ sabio_pc = "returned" =>
                /\ prompt_calls = MissingParams
                /\ sabio_result.kind = "dict"
                /\ \A p \in DOMAIN NoValues :
                        InText(p) => sabio_result.dict[p] = MeanInText(p)

\* what the user typed that is a number, and the numbers
InputValue == (<<"1">> :> One) @@ (<<"2", ".", "5">> :> Rat(5, 2))
Numeric(u) == u \in DOMAIN InputValue
NumericTyped == SelectSeq(typed, Numeric)

\* C15: when the request fails (exception or HTTP error status), the call in
\* non-interactive mode returns None without ever prompting, and in
\* interactive mode returns a dictionary of four values obtained by prompting
\* exactly once per parameter in the order Km, Vmax, optimal pH, optimal
\* temperature.
C15_FailedRequestFallback ==
    (sabio_pc # "idle" /\ response.status \in {"http_error", "exception"})
        => IF ~interactive
           THEN /\ sabio_pc = "returned" /\ sabio_result.kind = "None"
                /\ prompt_calls = <<>> /\ asked = <<>>
           ELSE /\ IsPrefix(prompt_calls, SabioParams)
                /\ Len(prompt_calls) = Len(NumericTyped)
                    + (IF sabio_pc = "prompting" THEN 1 ELSE 0)
                /\ sabio_pc = "returned" =>
                    /\ prompt_calls = SabioParams
                    /\ sabio_result.kind = "dict"
                    /\ \A i \in 1..4 :
                        sabio_result.dict[SabioParams[i]] = InputValue[NumericTyped[i]]

\* the fallback of test_sabio_api_error, here with a non-numeric input too
C15_Witness ==
    /\ sabio_pc = "returned" /\ interactive /\ response.status = "http_error"
    /\ typed = <<<<"1">>, <<"o", "o", "p", "s">>, <<"2", ".", "5">>, <<"1">>, <<"1">>>>
    /\ sabio_result.dict =
        [km |-> One, vmax |-> Rat(5, 2), optimal_pH |-> One, optimal_temp |-> One]

\* C16: _prompt_user_for_value asks again after every non-numeric input and
\* returns the first input that parses as a number: a non-numeric input never
\* ends the prompt and never moves an answer to another parameter, and the
\* call returns as soon as, and only when, a numeric input arrives.
C16_PromptRetriesUntilNumeric ==
    sabio_pc # "idle"
        => /\ Len(asked) = Len(typed) + (IF sabio_pc = "prompting" THEN 1 ELSE 0)
           /\ sabio_pc = "prompting" => asked[Len(asked)] = SabioParams[asking]
           /\ \A i \in 1..Len(typed) :
                IF Numeric(typed[i])
                THEN /\ i < Len(asked) => asked[i + 1] # asked[i]
                     /\ values[asked[i]] = InputValue[typed[i]]
                     /\ sabio_pc = "returned" =>
                            sabio_result.dict[asked[i]] = InputValue[typed[i]]
                ELSE /\ i < Len(asked)
                     /\ asked[i + 1] = asked[i]
           /\ \A i \in 1..Len(asked) :
                (i > 1 /\ asked[i] # asked[i - 1]) => Numeric(typed[i - 1])

\* test_sabio_input_retry: "oops" at the Km prompt, then four numbers
C16_Witness ==
    /\ sabio_pc = "returned" /\ interactive /\ response = [status |-> "ok", text |-> <<>>]
    /\ typed = <<<<"o", "o", "p", "s">>, <<"2", ".", "5">>, <<"1">>, <<"2", ".", "5">>, <<"1">>>>
    /\ asked = <<"km", "km", "vmax", "optimal_pH", "optimal_temp">>
    /\ sabio_result.dict =
        [km |-> Rat(5, 2), vmax |-> One, optimal_pH |-> Rat(5, 2), optimal_temp |-> One]

\* C17: on a successful response each of km, vmax, optimal_pH and
\* optimal_temp returned is the arithmetic mean of all values of that
\* parameter found in the response text (a single value is returned as is).
C17_ReturnsMeanOfValues ==
    (sabio_pc = "returned" /\ response.status = "ok" /\ AllTokensNumeric)
        => /\ sabio_result.kind = "dict"
           /\ \A p \in DOMAIN NoValues :
                InText(p) => sabio_result.dict[p] = MeanInText(p)

----------------------------------------------------------------------------
(* Properties of media_optimizer.                                          *)

Ended == media_pc \in {"returned", "exited", "raised"}
Gets == SelectSeq(http_log, LAMBDA r : r.method = "GET")
FetchGets == SelectSeq(http_log, LAMBDA r : r.method = "GET" /\ r.url[1] = "fetch")
SearchCalled == search_result # NoSearch \/ media_pc = "awaiting_search"
FetchCalled == fetch_result # NoFetch
Tables == SelectSeq(console, LAMBDA line : line = "table")

\* the four ways to end that the claim lists
EndsWithError ==
    /\ media_pc = "exited" /\ exit_code = 1 /\ console = <<"[red]Error:[/]">>
    /\ search_result.kind = "ValueError"
EndsNoStrains ==
    /\ media_pc = "exited" /\ exit_code = 0 /\ console = <<"No strains found">>
    /\ search_result = [kind |-> "return", ids |-> <<>>]
EndsNoMedia ==
    /\ media_pc = "exited" /\ exit_code = 0
    /\ console = <<"No medium info available">>
    /\ FetchCalled /\ fetch_result.kind = "return"
    /\ extract_media(fetch_result.strain) = MediaReturned(<<>>)
EndsWithTable ==
    /\ media_pc = "returned" /\ exit_code = -1 /\ console = <<"table">>
    /\ FetchCalled /\ fetch_result.kind = "return"
    /\ extract_media(fetch_result.strain).kind = "return"
    /\ extract_media(fetch_result.strain).list # <<>>
\* and the fifth: an exception leaves run, nothing printed or displayed
EndsRaising ==
    /\ media_pc = "raised" /\ exit_code = -1 /\ console = <<>>
    /\ run_exception # "" /\ search_result.kind # "ValueError"

\* fetch_strain is called at most once, with the first id, and only when
\* the id list is not empty; a table is displayed at most once, and only
\* for a media list that is not empty
FetchAndTableRules ==
    /\ Len(FetchGets) <= 1
    /\ FetchCalled => Len(FetchGets) = 1
    /\ FetchGets # <<>> =>
        /\ search_result.kind = "return" /\ search_result.ids # <<>>
        /\ FetchGets[1].url = <<"fetch", search_result.ids[1]>>
    /\ Len(Tables) <= 1
    /\ Tables # <<>> => EndsWithTable

\* C18 as stated: once it has its token, run ends in exactly one of four ways: exit code 1 after
\* '[red]Error:[/]' when search_ids raises ValueError, exit code 0 after 'No
\* strains found' when the id list is empty, exit code 0 after 'No medium
\* info available' when the strain has no media, or a normal return after
\* displaying the table exactly once; fetch_strain is called at most once,
\* with the first id and only when the id list is non-empty, and the table is
\* displayed only when the media list is non-empty.
C18_FourWaysToEnd ==
    /\ FetchAndTableRules
    /\ (Ended /\ SearchCalled)
        => (EndsWithError \/ EndsNoStrains \/ EndsNoMedia \/ EndsWithTable)

\* C18 amended: run ends in exactly one of five ways: the four above, or an
\* exception other than search_ids' ValueError leaves run (a failed
\* authentication, an HTTP error status of the search or the fetch, a
\* response of an unexpected shape), and then nothing is printed and no
\* table displayed; the rules on fetch_strain and on the table hold.
C18_FiveWaysToEnd ==
    /\ FetchAndTableRules
    /\ Ended =>
        /\ EndsWithError \/ EndsNoStrains \/ EndsNoMedia \/ EndsWithTable \/ EndsRaising
        /\ search_result.kind = "ValueError" => EndsWithError
        /\ search_result = [kind |-> "return", ids |-> <<>>] => EndsNoStrains
        /\ (FetchCalled /\ fetch_result.kind = "return"
                /\ extract_media(fetch_result.strain) = MediaReturned(<<>>)
                /\ Returned(extract_temperature(fetch_result.strain)))
            => EndsNoMedia

\* test_run_happy_path, with the search and the fetch of the fixtures
C18_Witness ==
    /\ media_pc = "returned" /\ console = <<"table">>
    /\ media_query = QBASU
    /\ search_result.ids = <<42, 99>>
    /\ http_log = <<[method |-> "POST", url |-> <<"token">>],
                    [method |-> "GET", url |-> <<"taxon", <<"B", "a">>, <<"s", "u">>>>],
                    [method |-> "GET", url |-> <<"fetch", 42>>]>>
    /\ fetch_result = StrainReturned(HappyStrain)

\* what the claim says fetch_strain returns on a successful response
ClaimedStrain(results) ==
    IF results.t = "dict" /\ results.items # <<>> THEN results.items[1]
    ELSE IF results.t = "list" /\ results.items # <<>> THEN results.items[1]
    ELSE Strain(Missing)

\* C19: fetch_strain returns the first value when the response's results is
\* a dictionary, the first element when it is a non-empty list, and the empty
\* dictionary when results is missing, empty, or of any other type; it never
\* raises for a response with a successful status.
C19_FetchStrainNeverRaises ==
    (FetchCalled /\ fetch_response.status = "ok")
        => fetch_result = StrainReturned(ClaimedStrain(fetch_response.results))

\* the letters the query starts with
RECURSIVE LeadingLetters(_)
LeadingLetters(q) ==
    IF q # <<>> /\ IsLetter(q[1]) THEN 1 + LeadingLetters(Tail(q)) ELSE 0

RECURSIVE SkipBlanks(_)
SkipBlanks(q) == IF q # <<>> /\ q[1] = " " THEN SkipBlanks(Tail(q)) ELSE q

\* the query starts with 2 to 5 letters followed by optional spaces and a digit
StartsLikeCollectionNo(q) ==
    LET n == LeadingLetters(q)
        rest == SkipBlanks(SubSeq(q, n + 1, Len(q)))
    IN  n >= 2 /\ n <= 5 /\ rest # <<>> /\ IsDigit(rest[1])

\* C20: search_ids sends a query that starts with 2 to 5 letters followed by
\* optional spaces and a digit to the culture-collection endpoint, any other
\* query of at least two words to the taxon endpoint with the first two words
\* as genus and species, and for any other query raises ValueError before any
\* HTTP request is made; an HTTP error status is raised to the caller and no
\* id list is returned.
C20_SearchRouting ==
    SearchCalled
        => /\ IF StartsLikeCollectionNo(media_query)
              THEN Gets # <<>> /\ Gets[1].url = <<"culturecollectionno", media_query>>
              ELSE IF Len(split(media_query)) >= 2
              THEN /\ Gets # <<>>
                   /\ Gets[1].url = <<"taxon", split(media_query)[1], split(media_query)[2]>>
              ELSE search_result = [kind |-> "ValueError", ids |-> <<>>] /\ Gets = <<>>
           /\ search_response.status = "error"
                => /\ search_result = [kind |-> "HTTPError", ids |-> <<>>]
                   /\ media_pc = "raised" /\ run_exception = "HTTPError"
                   /\ Len(Gets) = 1

\* "Ba su 168" goes to taxon/Ba/su, and the endpoint answers with an error
C20_Witness ==
    /\ media_query = QBASU168
    /\ Gets = <<[method |-> "GET", url |-> <<"taxon", <<"B", "a">>, <<"s", "u">>>>]>>
    /\ search_response.status = "error"
    /\ search_result.kind = "HTTPError" /\ media_pc = "raised"

\* the id the claim gives for an entry of the results
ClaimedId(e) ==
    IF e.t = "dict" THEN (IF e.bacdive_id # NoId THEN e.bacdive_id ELSE e.id)
    ELSE e.n

\* the ids that occur in the response
IdsInResponse ==
    LET entries == search_response.results.items
    IN  UNION {IF entries[i].t = "dict" THEN {entries[i].bacdive_id, entries[i].id}
               ELSE IF entries[i].t = "int" THEN {entries[i].n}
               ELSE {} : i \in 1..Len(entries)} \ {NoId}

\* C21: search_ids returns the ids of the response's results in response
\* order, for a dictionary entry its bacdive_id, or its id when bacdive_id is
\* absent, and for an integer entry the integer itself; every element of the
\* returned list is an id that occurs in the response.
C21_IdsOfTheResponse ==
    (/\ search_response.status = "ok"
     /\ search_response.results.t = "list"
     /\ \A i \in 1..Len(search_response.results.items) :
            search_response.results.items[i].t \in {"dict", "int"})
        => /\ search_result.kind = "return"
           /\ search_result.ids
                = [i \in 1..Len(search_response.results.items)
                     |-> ClaimedId(search_response.results.items[i])]
           /\ \A i \in 1..Len(search_result.ids) : search_result.ids[i] \in IdsInResponse

----------------------------------------------------------------------------
(* The two copies of the rate formula.                                     *)

\* C24: simulation.simulate_reaction_rate and
\* reaction_simulator.simulate_reaction_rate return the same result, the same
\* value or the same failure, for every input once ph/optimal_ph/ph_sigma are
\* mapped onto pH/optimal_pH/pH_sigma, including when arguments are left at
\* their defaults.
C24_CopiesAgree ==
    copy_outcome # Raise("none") => copy_outcome = outcome

\* a call that leaves the tolerances at their defaults and returns a rate
\* below vmax, and a call whose inhibition term divides by zero
C24_Witness ==
    /\ copy_outcome # Raise("none")
    /\ \/ /\ omitted = {"pH_sigma", "temp_sigma"}
          /\ Returned(outcome) /\ outcome.val[1] > 0
          /\ call.pH # call.optimal_pH /\ call.temp # call.optimal_temp
       \/ /\ omitted = {}
          /\ outcome.kind = "ZeroDivisionError"
          /\ call.inhibitor_conc # None /\ call.ki = Zero

\* the token endpoint answered and authentication failed: an error status,
\* or no access_token in the answer
AuthenticationFailed ==
    /\ token_response.status # "none"
    /\ \/ token_response.status = "error"
       \/ token_response.token \in {Missing, Null, Text("")}

Posts == SelectSeq(http_log, LAMBDA r : r.method = "POST")

\* C25: run authenticates before anything else: the bearer token is requested
\* exactly once and before the search; when authentication fails (HTTP error
\* status, or a response with no access_token, which raises RuntimeError) the
\* exception reaches the caller and no search, fetch or table display takes
\* place; get_bearer_token never returns a missing or empty token.
C25_AuthenticatesFirst ==
    /\ media_pc # "idle"
        => /\ http_log[1] = [method |-> "POST", url |-> <<"token">>]
           /\ Len(Posts) = 1
    /\ AuthenticationFailed
        => /\ media_pc = "raised"
           /\ run_exception
                = (IF token_response.status = "error" THEN "HTTPError" ELSE "RuntimeError")
           /\ Gets = <<>> /\ console = <<>> /\ exit_code = -1
           /\ ~SearchCalled /\ ~FetchCalled
           /\ headers = NoHeaders
    /\ headers # NoHeaders
        => /\ token_response.status = "ok"
           /\ token_response.token.t = "str" /\ token_response.token.s # ""
           /\ headers.Authorization = <<"Bearer", token_response.token.s>>
    /\ Gets # <<>> => headers # NoHeaders

\* test_get_bearer_token_missing_token: the answer has no access_token
C25_Witness ==
    /\ token_response = [status |-> "ok", token |-> Missing]
    /\ media_pc = "raised" /\ run_exception = "RuntimeError"
    /\ Len(http_log) = 1

----------------------------------------------------------------------------
(* get_kinetic_params_from_sabio in non-interactive mode.                  *)

\* C26: in non-interactive mode, whenever the HTTP request succeeds,
\* get_kinetic_params_from_sabio never prompts and always returns a dictionary
\* with the four keys km, vmax, optimal_pH and optimal_temp, a parameter absent
\* from the response being None; this holds for any response text, including
\* one whose numeric tokens do not parse as numbers, and None is returned as
\* the whole result only when the request itself failed.
C26_NonInteractiveReturnsDict ==
    (sabio_pc # "idle" /\ ~interactive /\ response.status = "ok")
        => /\ sabio_pc = "returned"
           /\ prompt_calls = <<>> /\ asked = <<>>
           /\ sabio_result.kind = "dict"
           /\ DOMAIN sabio_result.dict = {"km", "vmax", "optimal_pH", "optimal_temp"}
           /\ \A i \in 1..4 :
                ~InText(SabioParams[i]) => sabio_result.dict[SabioParams[i]] = None

----------------------------------------------------------------------------
(* Properties of media_optimizer.extract_temperature.                      *)

\* the entries gathered from the keys that contain 'temp'
Gathered == Candidates_(extract_strain.cgc.others)

\* extract_temperature was called on a block whose temperature keys hold
\* entries, all of them dictionaries that parse_val accepts
EntriesGathered ==
    /\ extract_pc = "done"
    /\ extract_strain.cgc.t = "dict"
    /\ Gathered # <<>>
    /\ \A i \in 1..Len(Gathered) :
        Gathered[i].t = "dict" /\ Returned(parse_val(Gathered[i]))

\* the entries that parse, and those among them of a kind
Parsing == {i \in 1..Len(Gathered) : parse_val(Gathered[i]).val # None}
ParsingOfKind(word) == {i \in Parsing : Contains(EntryKind(Gathered[i]), word)}

\* the entry the claim designates
Preferred ==
    IF ParsingOfKind(OPTIMUM) # {} THEN First(ParsingOfKind(OPTIMUM))
    ELSE IF ParsingOfKind(GROWTH) # {} THEN First(ParsingOfKind(GROWTH))
    ELSE First(Parsing)

TextReading ==
    (T37C :> Num(37)) @@ (T20to30C :> Num(25)) @@ (T10to20 :> Num(15))
        @@ (TMinus5C :> Num(-5))
ClaimedReading(v) == IF v.t = "num" THEN v.v ELSE TextReading[v.s]

\* the values that hold no temperature: an absent one, "warm"
NoReading == {Missing, Chars(TWarm)}

\* the first 'N [deg]C' of the texts explored under a key without 'temp'
FirstInText == (TAt55C :> Num(55)) @@ (T42then30 :> Rat(85, 2)) @@ (T37C :> Num(37))

\* C23: extract_temperature reports a range value ('20-30 [deg]C' with an en
\* dash, or '10-20') as the mean of its two ends, a single number as that
\* number, and, when no key of the growth-conditions block contains 'temp',
\* the first 'N [deg]C' found anywhere in the block; it returns '-' when the
\* block is empty or holds no temperature information.
C23_RangesNumbersAndFallback ==
    (extract_pc = "done" /\ extract_strain.cgc.t = "dict")
        => LET others == extract_strain.cgc.others
           IN  /\ others = <<>> => extracted = Return(Dash)
               /\ (/\ Len(others) = 1 /\ Len(Gathered) = 1
                   /\ Gathered[1].t = "dict"
                   /\ Gathered[1].temperature = Missing /\ Gathered[1].temp = Missing
                   /\ Gathered[1].description = Missing)
                    => extracted =
                        (IF Gathered[1].value \in NoReading THEN Return(Dash)
                         ELSE Return(Degrees(ClaimedReading(Gathered[1].value))))
               /\ (Len(others) = 1 /\ Gathered = <<>> /\ others[1][2].t \in {"str", "num"})
                    => extracted =
                        (IF others[1][2].t = "str" /\ others[1][2].s \in DOMAIN FirstInText
                         THEN Return(Degrees(FirstInText[others[1][2].s]))
                         ELSE Return(Dash))

\* C27: extract_temperature is total: for every strain dictionary, whatever
\* the shape of the values under 'Culture and growth conditions' (lists of
\* dictionaries, single dictionaries, plain strings or numbers under a key
\* containing 'temp', entries whose temperature value is 0), it returns either
\* '-' or a string of the form 'N[deg]C' and never raises.
C27_ExtractTemperatureTotal ==
    (extract_pc = "done" /\ extract_strain.cgc.t = "dict")
        => /\ Returned(extracted)
           /\ extracted.val.form \in {"-", "{val:g}[deg]C"}

====
